---------------------------- MODULE Spec2Model ----------------------------
(***************************************************************************)
(* A model of the luet_pm front-ends: the CommandRunner (elevation,        *)
(* synchronous run, streamed run), the curses Scheduler and main loop,     *)
(* the package filter tables and the search handlers of both front-ends,   *)
(* the oscheck output parser and the system check worker, the repository   *)
(* update, the two-run system upgrade, run_search_core with its JSON       *)
(* reading, and the TUI's operations with their worker threads.            *)
(*                                                                         *)
(* Text is modelled as sequences of one-character strings wherever the     *)
(* code looks inside it (prefixes, slices, splits); the "category/name"    *)
(* keys of the filter tables are TLA+ strings built with \o as the code    *)
(* builds them with format().                                              *)
(***************************************************************************)
EXTENDS Integers, Sequences, FiniteSets, TLC

VARIABLES
    (* ---- CommandRunner (luet_pm_core.py 147-223) ---- *)
    r_root,        \* os.getuid() == 0
    r_elev,        \* self.elevation_cmd (<<>> models None)
    r_pc,          \* position of the current call and of its thread
    r_mode,        \* "none" | "sync" | "realtime"
    r_cmd,         \* the caller's cmd_list object
    r_arg,         \* the value of cmd_list when the call was made
    r_need,        \* require_root
    r_final,       \* the local list `final`
    r_exec,        \* argument vectors handed to subprocess (run / Popen)
    r_threads,     \* threads started by the current call
    r_stdout,      \* raw lines read from the process so far
    r_sched,       \* calls handed to schedule_callback, in order
    r_rc,          \* "none" or the exit code of the process
    r_err,         \* the thread reached its except block
    r_raised,      \* exception raised to the caller of run_sync
    (* ---- Scheduler and the curses main loop (luet_pm_tui.py 50-67, 1222-1229) ---- *)
    q,             \* Scheduler.q: the callbacks waiting, oldest first
    s_enq,         \* every callback handed to schedule(), in order
    s_ran,         \* every callback executed, in order, with where it ran
    s_pc,          \* main thread: "loop" | "drain" | "keys" | "exited"
    s_max,         \* max_items of the current drain call
    s_processed,   \* drain's local counter `processed`
    s_caught,      \* exceptions caught (and printed) by drain
    s_running,     \* LuetTUI.running
    s_next,        \* callbacks created so far
    (* ---- search results in both front-ends and the core ---- *)
    f_result,      \* what PackageSearcher.run_search_core returned last
    f_todo,        \* the consumers that have not yet been given f_result
    g_liststore,   \* GUI: SearchApp.liststore rows
    g_status,      \* GUI: status bar message
    g_last,        \* GUI: package list of the last search it displayed
    c_out,         \* core: value returned by process_search_results
    (* ---- curses TUI (luet_pm_tui.py LuetTUI) ---- *)
    t_queue,       \* self.scheduler.q
    t_results,     \* self.results
    t_selected,    \* self.selected_index
    t_status,      \* self.status_message
    t_error,       \* self.is_error_status
    t_last,        \* package list of the last search on_search_finished displayed
    t_pc,          \* main loop: "drain" (in scheduler.drain) | "input" (at getch)
    t_focus,       \* self.focus: "list" | "search"
    t_query,       \* self.search_query
    t_workers,     \* operations running in worker threads / subprocesses
    t_started,     \* argument list of the last luet command started
    t_message,     \* text of the last show_message box
    (* ---- SystemChecker._parse_reinstall_candidates ---- *)
    o_reported,    \* the packages oscheck reports, line by line
    o_output,      \* the text handed to _parse_reinstall_candidates
    o_result,      \* "none" or the list it returned
    (* ---- SystemChecker._do_check_system ---- *)
    k_pc,          \* where the checking thread is
    k_output,      \* result.stdout + result.stderr of luet oscheck
    k_rc,          \* result.returncode of luet oscheck, -1 before it returned
    k_candidates,  \* candidates, <<>> when none were computed
    k_idx,         \* position of pkg in candidates
    k_repair_ok,   \* repair_ok
    k_exc,         \* the exception being handled
    k_status,      \* status_message
    k_calls,       \* commands run and callbacks invoked, in order
    k_rcs,         \* return codes of the reinstall commands, in order
    k_translated,  \* whether gettext finds a translation of the messages
    (* ---- RepositoryUpdater.run_repo_update ---- *)
    u_pc,          \* where run_repo_update is
    u_cookie,      \* inhibit_cookie
    u_inhibited,   \* whether inhibit_setter returned a cookie
    u_thread,      \* the runner's reader thread: "none", "running", "done"
    u_lines,       \* output lines the reader thread has read
    u_q,           \* calls handed to schedule_callback and not yet run
    u_scheduled,   \* every call handed to schedule_callback, in order
    u_ran,         \* the scheduled calls the main thread has run, in order
    (* ---- SystemUpgrader ---- *)
    v_pc,          \* where start_upgrade (run in a worker thread) is
    v_helper,      \* whether the runner can elevate (root, or a helper exists)
    v_run,         \* the run whose command was handed to the runner last (0, 1, 2)
    v_thread,      \* the runner's reader thread: "none", "running", "done"
    v_read,        \* output lines of the first run the reader thread has read
    v_nlines,      \* lines the reader thread of the current run has produced
    v_collected,   \* self.collected_lines
    v_q,           \* calls scheduled for the main thread and not yet run
    v_calls,       \* commands handed to the runner and callbacks invoked, in order
    (* ---- PackageSearcher.run_search_core ---- *)
    n_pc,          \* "idle", "ran" (command_runner_sync is over), "returned"
    n_input,       \* what the search command was made to print
    n_res,         \* what command_runner_sync did: raised, or returncode and stdout
    n_result,      \* what run_search_core returned
    (* ---- LuetTUI: status line and operations ---- *)
    w_pc,          \* where the main loop is: "drain", "input", "draw"
    w_processed,   \* calls the running drain() has processed
    w_status,      \* self.status_message
    w_error,       \* self.is_error_status
    w_drawn,       \* the status the last draw() painted
    w_q,           \* Scheduler.q
    w_threads,     \* the worker threads that are running
    w_inflight,    \* operations started whose final callback has not run
    w_focus,       \* self.focus
    w_query,       \* whether self.search_query is non-empty
    w_menu         \* self.menu.is_open

runnerVars == <<r_root, r_elev, r_pc, r_mode, r_cmd, r_arg, r_need, r_final,
                r_exec, r_threads, r_stdout, r_sched, r_rc, r_err, r_raised>>

schedVars == <<q, s_enq, s_ran, s_pc, s_max, s_processed, s_caught, s_running,
               s_next>>

filterVars == <<f_result, f_todo, g_liststore, g_status, g_last, c_out>>

\* the part of the TUI that on_search_finished and set_status touch
tuiListVars == <<t_queue, t_results, t_selected, t_status, t_error, t_last>>

tuiLoopVars == <<t_pc, t_focus, t_query, t_workers, t_started, t_message>>

tuiVars == <<tuiListVars, tuiLoopVars>>

parseVars == <<o_reported, o_output, o_result>>

checkVars == <<k_pc, k_output, k_rc, k_candidates, k_idx, k_repair_ok, k_exc,
               k_status, k_calls, k_rcs, k_translated>>

repoVars == <<u_pc, u_cookie, u_inhibited, u_thread, u_lines, u_q,
    u_scheduled, u_ran>>

upgradeVars == <<v_pc, v_helper, v_run, v_thread, v_read, v_nlines,
    v_collected, v_q, v_calls>>

searchCoreVars == <<n_pc, n_input, n_res, n_result>>

opsVars == <<w_pc, w_processed, w_status, w_error, w_drawn, w_q, w_threads,
    w_inflight, w_focus, w_query, w_menu>>

vars == <<runnerVars, schedVars, filterVars, tuiVars, parseVars, checkVars,
    repoVars, upgradeVars, searchCoreVars, opsVars>>

\* What an action of one component leaves alone: the other components.
RunnerFrame == UNCHANGED <<schedVars, filterVars, tuiVars, parseVars,
    checkVars, repoVars, upgradeVars, searchCoreVars, opsVars>>
SchedFrame == UNCHANGED <<runnerVars, filterVars, tuiVars, parseVars,
    checkVars, repoVars, upgradeVars, searchCoreVars, opsVars>>
FilterFrame == UNCHANGED <<runnerVars, schedVars, tuiLoopVars, parseVars,
    checkVars, repoVars, upgradeVars, searchCoreVars, opsVars>>
TuiFrame == UNCHANGED <<runnerVars, schedVars, filterVars, parseVars,
    checkVars, repoVars, upgradeVars, searchCoreVars, opsVars>>
ParseFrame == UNCHANGED <<runnerVars, schedVars, filterVars, tuiVars,
    checkVars, repoVars, upgradeVars, searchCoreVars, opsVars>>
CheckFrame == UNCHANGED <<runnerVars, schedVars, filterVars, tuiVars,
    parseVars, repoVars, upgradeVars, searchCoreVars, opsVars>>
RepoFrame == UNCHANGED <<runnerVars, schedVars, filterVars, tuiVars,
    parseVars, checkVars, upgradeVars, searchCoreVars, opsVars>>
UpgradeFrame == UNCHANGED <<runnerVars, schedVars, filterVars, tuiVars,
    parseVars, checkVars, repoVars, searchCoreVars, opsVars>>
SearchCoreFrame == UNCHANGED <<runnerVars, schedVars, filterVars, tuiVars,
    parseVars, checkVars, repoVars, upgradeVars, opsVars>>
OpsFrame == UNCHANGED <<runnerVars, schedVars, filterVars, tuiVars, parseVars,
    checkVars, repoVars, upgradeVars, searchCoreVars>>

-----------------------------------------------------------------------------
(* Bounds *)

MaxLines == 2

\* callbacks created in one behaviour
MaxCallbacks == 3

\* largest explicit max_items argument tried besides the default
MaxItemsArg == 2

\* packages in one search result
MaxPkgs == 2

\* packages one oscheck run reports
MaxReports == 2

\* drain(self, max_items=200)
DefaultMaxItems == 200

-----------------------------------------------------------------------------
(* Generic helpers on sequences *)

StartsWith(s, p) == Len(s) >= Len(p) /\ SubSeq(s, 1, Len(p)) = p

\* Python s[k:]
SliceFrom(s, k) == SubSeq(s, k + 1, Len(s))

Last(s) == s[Len(s)]

Range(s) == {s[i] : i \in 1..Len(s)}

-----------------------------------------------------------------------------
(* CommandRunner *)

ElevationCmds == {<<>>, <<"pkexec">>, <<"sudo">>, <<"sudo", "-n">>}

CmdLists == {<<"luet", "cleanup">>, <<"luet", "install", "-y", "apps/vim">>}

ExitCodes == {0, 1, 2}

PfxInfo  == <<" ", "I", "N", "F", "O", " ">>
PfxWarn  == <<" ", "W", "A", "R", "N", " ">>
PfxError == <<" ", "E", "R", "R", "O", "R", " ">>

\* Lines a process can print: with each prefix, without one, and near misses.
OutputLines ==
    { PfxInfo \o <<"x", "\n">>,
      PfxWarn \o <<"x", "\n">>,
      PfxError \o <<"x", "\n">>,
      <<"x", "\n">>,
      <<"I", "N", "F", "O", " ", "x", "\n">>,
      <<" ", "I", "N", "F", "O", "x", "\n">> }

\* "\nError executing command: {}\n" (content abbreviated)
ErrorLine == <<"\n", "E", "r", "r", "o", "r", "\n">>

LineCall(l) == [cb |-> "on_line_received", line |-> l, rc |-> 0]
FinCall(c)  == [cb |-> "on_finished", line |-> <<>>, rc |-> c]

\* final = list(cmd_list); if require_root and os.getuid() != 0: ...
NeedsElevation(need, root) == need /\ ~root

\* Mutation: the missing-helper test is dropped.
HasHelper_Always(elev) == TRUE

HasHelper(elev) == elev # <<>>

\* Mutation: the prefix is appended instead of prepended.
BuildFinal_Appended(elev, cmd) == cmd \o elev

BuildFinal(elev, cmd) == elev \o cmd

\* thread_func's prefix stripping of one line
StripLine(line) ==
    IF StartsWith(line, PfxInfo) THEN SliceFrom(line, 5)
    ELSE IF StartsWith(line, PfxWarn) THEN SliceFrom(line, 5)
    ELSE IF StartsWith(line, PfxError) THEN SliceFrom(line, 6)
    ELSE line

RunnerInit ==
    /\ r_root \in BOOLEAN
    /\ r_elev \in ElevationCmds
    /\ r_pc = "idle"
    /\ r_mode = "none"
    /\ r_cmd = <<>>
    /\ r_arg = <<>>
    /\ r_need = FALSE
    /\ r_final = <<>>
    /\ r_exec = <<>>
    /\ r_threads = 0
    /\ r_stdout = <<>>
    /\ r_sched = <<>>
    /\ r_rc = "none"
    /\ r_err = FALSE
    /\ r_raised = "none"

\* CommandRunner.run_sync: the whole synchronous call.
RunSync ==
    /\ RunnerFrame
    /\ r_pc = "idle"
    /\ \E cmd \in CmdLists, need \in BOOLEAN :
        /\ r_mode' = "sync"
        /\ r_cmd' = cmd
        /\ r_arg' = cmd
        /\ r_need' = need
        /\ IF NeedsElevation(need, r_root) /\ ~HasHelper(r_elev)
           THEN /\ r_final' = cmd
                /\ r_raised' = "RuntimeError"
                /\ r_exec' = r_exec
                /\ r_rc' = "none"
           ELSE /\ r_final' = IF NeedsElevation(need, r_root)
                              THEN BuildFinal(r_elev, cmd) ELSE cmd
                /\ r_raised' = "none"
                /\ r_exec' = Append(r_exec, r_final')
                \* subprocess.run returns, or FileNotFoundError gives returncode 1
                /\ r_rc' \in ExitCodes
    /\ r_pc' = "done"
    /\ UNCHANGED <<r_root, r_elev, r_threads, r_stdout, r_sched, r_err>>

\* CommandRunner.run_realtime up to thread.start() or the early return.
RunRealtime ==
    /\ RunnerFrame
    /\ r_pc = "idle"
    /\ \E cmd \in CmdLists, need \in BOOLEAN :
        /\ r_mode' = "realtime"
        /\ r_cmd' = cmd
        /\ r_arg' = cmd
        /\ r_need' = need
        /\ IF NeedsElevation(need, r_root) /\ ~HasHelper(r_elev)
           THEN /\ r_final' = cmd
                /\ r_sched' = Append(r_sched, FinCall(-1))
                /\ r_threads' = r_threads
                /\ r_pc' = "done"
           ELSE /\ r_final' = IF NeedsElevation(need, r_root)
                              THEN BuildFinal(r_elev, cmd) ELSE cmd
                /\ r_sched' = r_sched
                /\ r_threads' = r_threads + 1
                /\ r_pc' = "popen"
    /\ UNCHANGED <<r_root, r_elev, r_exec, r_stdout, r_rc, r_err, r_raised>>

\* thread_func: subprocess.Popen(final, ...) succeeds.
ThreadPopen ==
    /\ RunnerFrame
    /\ r_pc = "popen"
    /\ r_exec' = Append(r_exec, r_final)
    /\ r_pc' = "reading"
    /\ UNCHANGED <<r_root, r_elev, r_mode, r_cmd, r_arg, r_need, r_final,
                   r_threads, r_stdout, r_sched, r_rc, r_err, r_raised>>

\* thread_func: subprocess.Popen raises (e.g. FileNotFoundError).
ThreadPopenRaises ==
    /\ RunnerFrame
    /\ r_pc = "popen"
    /\ r_exec' = Append(r_exec, r_final)
    /\ r_pc' = "except"
    /\ UNCHANGED <<r_root, r_elev, r_mode, r_cmd, r_arg, r_need, r_final,
                   r_threads, r_stdout, r_sched, r_rc, r_err, r_raised>>

\* thread_func: one iteration of the readline loop.
ThreadReadLine ==
    /\ RunnerFrame
    /\ r_pc = "reading"
    /\ Len(r_stdout) < MaxLines
    /\ \E line \in OutputLines :
        /\ r_stdout' = Append(r_stdout, line)
        /\ r_sched' = Append(r_sched, LineCall(StripLine(line)))
    /\ UNCHANGED <<r_root, r_elev, r_pc, r_mode, r_cmd, r_arg, r_need, r_final,
                   r_exec, r_threads, r_rc, r_err, r_raised>>

\* thread_func: readline raises (e.g. UnicodeDecodeError).
ThreadReadRaises ==
    /\ RunnerFrame
    /\ r_pc = "reading"
    /\ r_pc' = "except"
    /\ UNCHANGED <<r_root, r_elev, r_mode, r_cmd, r_arg, r_need, r_final,
                   r_exec, r_threads, r_stdout, r_sched, r_rc, r_err, r_raised>>

\* thread_func: readline returns '' (EOF); close, wait, schedule on_finished.
ThreadEOF ==
    /\ RunnerFrame
    /\ r_pc = "reading"
    /\ \E code \in ExitCodes :
        /\ r_rc' = code
        /\ r_sched' = Append(r_sched, FinCall(code))
    /\ r_pc' = "done"
    /\ UNCHANGED <<r_root, r_elev, r_mode, r_cmd, r_arg, r_need, r_final,
                   r_exec, r_threads, r_stdout, r_err, r_raised>>

\* Mutation: the except block reports the error line and forgets on_finished.
ThreadExcept_NoFinish ==
    /\ RunnerFrame
    /\ r_pc = "except"
    /\ r_sched' = Append(r_sched, LineCall(ErrorLine))
    /\ r_err' = TRUE
    /\ r_pc' = "done"
    /\ UNCHANGED <<r_root, r_elev, r_mode, r_cmd, r_arg, r_need, r_final,
                   r_exec, r_threads, r_stdout, r_rc, r_raised>>

\* thread_func: the except block.
ThreadExcept ==
    /\ RunnerFrame
    /\ r_pc = "except"
    /\ r_sched' = r_sched \o <<LineCall(ErrorLine), FinCall(-1)>>
    /\ r_err' = TRUE
    /\ r_pc' = "done"
    /\ UNCHANGED <<r_root, r_elev, r_mode, r_cmd, r_arg, r_need, r_final,
                   r_exec, r_threads, r_stdout, r_rc, r_raised>>

\* The call is over; the runner is ready for the next call.
RunnerNextCall ==
    /\ RunnerFrame
    /\ r_pc = "done"
    /\ r_pc' = "idle"
    /\ r_mode' = "none"
    /\ r_cmd' = <<>>
    /\ r_arg' = <<>>
    /\ r_need' = FALSE
    /\ r_final' = <<>>
    /\ r_exec' = <<>>
    /\ r_threads' = 0
    /\ r_stdout' = <<>>
    /\ r_sched' = <<>>
    /\ r_rc' = "none"
    /\ r_err' = FALSE
    /\ r_raised' = "none"
    /\ UNCHANGED <<r_root, r_elev>>

RunnerNext ==
    \/ RunSync
    \/ RunRealtime
    \/ ThreadPopen
    \/ ThreadPopenRaises
    \/ ThreadReadLine
    \/ ThreadReadRaises
    \/ ThreadEOF
    \/ ThreadExcept
    \/ RunnerNextCall

-----------------------------------------------------------------------------
(* Claims about CommandRunner, checked under SpecRunner *)

IsFin(c) == c.cb = "on_finished"
IsLine(c) == c.cb = "on_line_received"

NoHelperCase == NeedsElevation(r_need, r_root) /\ r_elev = <<>>

C2_ElevationPrefix ==
    /\ r_cmd = r_arg
    /\ \A i \in 1..Len(r_exec) :
        /\ (r_need /\ ~r_root /\ r_elev # <<>>) =>
            /\ Len(r_exec[i]) = Len(r_elev) + Len(r_arg)
            /\ SubSeq(r_exec[i], 1, Len(r_elev)) = r_elev
            /\ SubSeq(r_exec[i], Len(r_elev) + 1, Len(r_exec[i])) = r_arg
        /\ r_root => r_exec[i] = r_arg

\* C2 witness: a streamed command was started through a two-word helper.
C2_Witness ==
    /\ r_mode = "realtime" /\ r_need /\ ~r_root
    /\ r_elev = <<"sudo", "-n">>
    /\ r_exec = <<<<"sudo", "-n", "luet", "cleanup">>>>

\* C3: a command needs root, the process is not root and there is no helper:
\* no subprocess is started; run_sync raises RuntimeError; run_realtime starts
\* no thread, delivers no line and schedules on_finished(-1).
C3_NoHelperNoProcess ==
    (r_mode # "none" /\ NoHelperCase) =>
        /\ r_exec = <<>>
        /\ r_pc = "done"
        /\ r_mode = "sync" => r_raised = "RuntimeError"
        /\ r_mode = "realtime" =>
            /\ r_threads = 0
            /\ r_sched = <<FinCall(-1)>>

\* C3 witness: run_realtime returned early without a helper.
C3_Witness ==
    /\ r_mode = "realtime" /\ NoHelperCase
    /\ r_sched = <<FinCall(-1)>> /\ r_threads = 0

\* The stripping C4 describes: the whole matched prefix is removed.
ClaimedStrip(line) ==
    IF StartsWith(line, PfxInfo) THEN SliceFrom(line, Len(PfxInfo))
    ELSE IF StartsWith(line, PfxWarn) THEN SliceFrom(line, Len(PfxWarn))
    ELSE IF StartsWith(line, PfxError) THEN SliceFrom(line, Len(PfxError))
    ELSE line

\* C4: every streamed line is delivered with its log-level prefix stripped:
\* a line beginning with " INFO ", " WARN " or " ERROR " is delivered with
\* exactly that prefix removed, any other line unchanged.
C4_PrefixRemoved ==
    r_mode = "realtime" =>
        \A i \in 1..Len(r_stdout) :
            r_sched[i] = LineCall(ClaimedStrip(r_stdout[i]))


-----------------------------------------------------------------------------
(* PackageFilter and the GUI's own tables *)

\* "{}/{}".format(category, name)
Key(category, name) == category \o "/" \o name

\* PackageFilter.get_protected_packages() (keys)
ProtectedPackages ==
    { "apps/grub", "system/kernel-updater", "system/luet",
      "layers/system-x", "layers/sys-fs", "layers/X" }

\* PackageFilter.get_hidden_packages() (keys)
HiddenPackages ==
    { "repository/mocaccino-desktop", "repository/mocaccino-os-commons",
      "repository/mocaccino-extra", "repository/mocaccino-community",
      "repository/luet", "repository/mocaccino-repository-index",
      "repository/mocaccino-desktop-stable",
      "repository/mocaccino-os-commons-stable",
      "repository/mocaccino-extra-stable",
      "repository/livecd", "repository/mocaccino-stage3",
      "repository/mocaccino-portage", "repository/mocaccino-portage-stable",
      "repository/mocaccino-kernel", "repository/mocaccino-kernel-stable",
      "repository/mocaccino-extra-arm", "repository/mocaccino-musl-universe",
      "repository/mocaccino-musl-universe-stable",
      "repository/mocaccino-micro", "repository/mocaccino-micro-stable",
      "repo-updater/mocaccino-micro-stable",
      "repo-updater/mocaccino-desktop-stable",
      "repo-updater/mocaccino-community-stable",
      "kernel-5.9/debian-full" }

\* SearchApp.protected_applications (keys)
GuiProtectedApplications ==
    { "apps/grub", "system/luet",
      "layers/system-x", "layers/sys-fs", "layers/X" }

\* SearchApp.hidden_packages (keys)
GuiHiddenPackages ==
    { "repository/mocaccino-desktop", "repository/mocaccino-os-commons",
      "repository/mocaccino-extra", "repository/mocaccino-community",
      "repository/luet", "repository/mocaccino-repository-index",
      "repository/mocaccino-desktop-stable",
      "repository/mocaccino-os-commons-stable",
      "repository/mocaccino-extra-stable",
      "repository/livecd", "repository/mocaccino-stage3",
      "repository/mocaccino-portage", "repository/mocaccino-portage-stable",
      "repository/mocaccino-kernel", "repository/mocaccino-kernel-stable",
      "repository/mocaccino-extra-arm", "repository/mocaccino-musl-universe",
      "repository/mocaccino-musl-universe-stable",
      "repository/mocaccino-micro", "repository/mocaccino-micro-stable",
      "repo-updater/mocaccino-micro-stable",
      "repo-updater/mocaccino-desktop-stable",
      "repo-updater/mocaccino-community-stable",
      "kernel-5.9/debian-full" }

\* Mutation: the "entity" category is no longer hidden.
IsPackageHidden_TableOnly(category, name) == Key(category, name) \in HiddenPackages

\* PackageFilter.is_package_hidden
IsPackageHidden(category, name) ==
    IF category = "entity" THEN TRUE
    ELSE Key(category, name) \in HiddenPackages

\* Mutation: nothing is protected.
IsPackageProtected_Never(category, name) == FALSE

\* PackageFilter.is_package_protected
IsPackageProtected(category, name) == Key(category, name) \in ProtectedPackages

-----------------------------------------------------------------------------
(* Search results and their three consumers *)

\* Packages `luet search -o json` can report (version and repository are
\* copied through by every consumer and left out).
Pkg(c, n, i) == [category |-> c, name |-> n, installed |-> i]

PackageUniverse ==
    { Pkg("apps", "vim", FALSE),
      Pkg("apps", "vim", TRUE),
      Pkg("apps", "grub", TRUE),
      Pkg("system", "kernel-updater", TRUE),
      Pkg("repository", "luet", TRUE),
      Pkg("entity", "root", FALSE) }

SeqsUpTo(S, n) == UNION { [1..k -> S] : k \in 0..n }

\* What PackageSearcher.run_search_core can return.
SearchResults ==
    { [kind |-> "error", packages |-> <<>>] }
    \cup { [kind |-> "packages", packages |-> ps] :
             ps \in SeqsUpTo(PackageUniverse, MaxPkgs) }

NoResult == [kind |-> "none", packages |-> <<>>]

Consumers == {"tui", "gui", "core"}

\* The row a results list shows for a package.
Row(p, action) == [category |-> p.category, name |-> p.name, action |-> action]

RECURSIVE TuiRows(_)
\* LuetTUI.on_search_finished: the loop that fills self.results
TuiRows(ps) ==
    IF ps = <<>> THEN <<>>
    ELSE LET p == Head(ps) IN
         IF IsPackageHidden(p.category, p.name) THEN TuiRows(Tail(ps))
         ELSE <<[category |-> p.category, name |-> p.name,
                 installed |-> p.installed,
                 protected |-> IsPackageProtected(p.category, p.name)]>>
              \o TuiRows(Tail(ps))

\* LuetTUI.draw: the action column of a results row
TuiActionText(r) ==
    IF r.protected THEN "Protected"
    ELSE IF r.installed THEN "Remove" ELSE "Install"

RECURSIVE GuiRows(_)
\* SearchApp.on_search_finished: the loop that fills self.liststore
GuiRows(ps) ==
    IF ps = <<>> THEN <<>>
    ELSE LET p == Head(ps)
             key == Key(p.category, p.name)
         IN IF p.category = "entity" THEN GuiRows(Tail(ps))
            ELSE IF key \in GuiHiddenPackages THEN GuiRows(Tail(ps))
            ELSE <<Row(p, IF key \in GuiProtectedApplications THEN "Protected"
                          ELSE IF p.installed THEN "Remove" ELSE "Install")>>
                 \o GuiRows(Tail(ps))

RECURSIVE CoreRows(_)
\* SearchProcessor.process_search_results: enrich, then keep what is not hidden
CoreRows(ps) ==
    IF ps = <<>> THEN <<>>
    ELSE LET p == Head(ps) IN
         IF ~IsPackageHidden(p.category, p.name)
         THEN <<[category |-> p.category, name |-> p.name,
                 installed |-> p.installed,
                 protected |-> IsPackageProtected(p.category, p.name)]>>
              \o CoreRows(Tail(ps))
         ELSE CoreRows(Tail(ps))

ReadyCallback == [cb |-> "set_status", status |-> "Ready", error |-> FALSE,
                  result |-> NoResult]

\* LuetTUI.on_search_finished(result), run with `rest` left in the queue.
TuiOnSearchFinished(result, rest) ==
    IF result.kind = "error"
    THEN /\ t_status' = "Error executing the search command"
         /\ t_error' = TRUE
         /\ t_queue' = rest
         /\ UNCHANGED <<t_results, t_selected, t_last>>
    ELSE /\ t_results' = TuiRows(result.packages)
         /\ t_selected' = 0
         /\ t_status' = "Found"
         /\ t_error' = FALSE
         /\ t_queue' = Append(rest, ReadyCallback)
         /\ t_last' = result.packages

\* LuetTUI.set_status(msg, error), run from the queue.
TuiSetStatus(cb, rest) ==
    /\ t_status' = cb.status
    /\ t_error' = cb.error
    /\ t_queue' = rest
    /\ UNCHANGED <<t_results, t_selected, t_last>>

FilterInit ==
    /\ f_result = NoResult
    /\ f_todo = {}
    /\ g_liststore = <<>>
    /\ g_status = "Ready"
    /\ g_last = <<>>
    /\ c_out = NoResult

TuiInit ==
    /\ t_queue = <<>>
    /\ t_results = <<>>
    /\ t_selected = 0
    /\ t_status = "Ready"
    /\ t_error = FALSE
    /\ t_last = <<>>
    /\ t_pc = "drain"
    /\ t_focus = "list"
    /\ t_query = ""
    /\ t_workers = <<>>
    /\ t_started = <<>>
    /\ t_message = ""

\* A search command finishes: run_search_core returns its result, which each
\* front-end's worker hands to its on_search_finished.
SearchReturns ==
    /\ FilterFrame
    /\ f_todo = {}
    /\ t_queue = <<>>
    /\ f_result' \in SearchResults
    /\ f_todo' = Consumers
    /\ UNCHANGED <<g_liststore, g_status, g_last, c_out, tuiListVars>>

\* TUI: the drained queue calls on_search_finished(result).
FilterTuiSearchFinished ==
    /\ FilterFrame
    /\ "tui" \in f_todo
    /\ f_todo' = f_todo \ {"tui"}
    /\ TuiOnSearchFinished(f_result, t_queue)
    /\ UNCHANGED <<f_result, g_liststore, g_status, g_last, c_out>>

\* TUI: the drained queue calls the scheduled set_status("Ready").
FilterTuiSetStatus ==
    /\ FilterFrame
    /\ t_queue # <<>>
    /\ Head(t_queue).cb = "set_status"
    /\ TuiSetStatus(Head(t_queue), Tail(t_queue))
    /\ UNCHANGED filterVars

\* GUI: SearchApp.on_search_finished(result) on the GLib main loop.
GuiOnSearchFinished ==
    /\ FilterFrame
    /\ "gui" \in f_todo
    /\ f_todo' = f_todo \ {"gui"}
    /\ IF f_result.kind = "error"
       THEN /\ g_status' = "Error executing the search command"
            /\ UNCHANGED <<g_liststore, g_last>>
       ELSE /\ g_liststore' = GuiRows(f_result.packages)
            /\ g_status' = IF Len(g_liststore') > 0 THEN "Found" ELSE "No results"
            /\ g_last' = f_result.packages
    /\ UNCHANGED <<f_result, c_out, tuiListVars>>

\* core: SearchProcessor.process_search_results(search_result, installed).
CoreProcessSearchResults ==
    /\ FilterFrame
    /\ "core" \in f_todo
    /\ f_todo' = f_todo \ {"core"}
    /\ c_out' = IF f_result.kind = "error" THEN f_result
                ELSE [kind |-> "packages", packages |-> CoreRows(f_result.packages)]
    /\ UNCHANGED <<f_result, g_liststore, g_status, g_last, tuiListVars>>

FilterNext ==
    \/ SearchReturns
    \/ FilterTuiSearchFinished
    \/ FilterTuiSetStatus
    \/ GuiOnSearchFinished
    \/ CoreProcessSearchResults

-----------------------------------------------------------------------------
(* Claims about the result lists, checked under SpecFilter *)

Shown(category, name) ==
    ~(category = "entity" \/ Key(category, name) \in HiddenPackages)

NamesOf(rows) == [i \in 1..Len(rows) |-> <<rows[i].category, rows[i].name>>]

RECURSIVE Kept(_)
\* the packages of a search that are neither "entity" nor in the hidden table
Kept(ps) ==
    IF ps = <<>> THEN <<>>
    ELSE IF Shown(Head(ps).category, Head(ps).name)
         THEN <<Head(ps)>> \o Kept(Tail(ps))
         ELSE Kept(Tail(ps))

\* C6: after any sequence of searches no result list (process_search_results
\* output, TUI results, GUI list store) holds a package of category "entity"
\* or with a key of the hidden table, and every other package the search
\* returned is kept, in the order returned.
C6_HiddenFilteredOthersKept ==
    /\ NamesOf(t_results) = NamesOf(Kept(t_last))
    /\ NamesOf(g_liststore) = NamesOf(Kept(g_last))
    /\ ("core" \notin f_todo /\ f_result.kind = "packages") =>
          NamesOf(c_out.packages) = NamesOf(Kept(f_result.packages))
    /\ ("tui" \notin f_todo /\ f_result.kind = "packages") =>
          t_last = f_result.packages
    /\ ("gui" \notin f_todo /\ f_result.kind = "packages") =>
          g_last = f_result.packages
    /\ \A rows \in {t_results, g_liststore, c_out.packages} :
          \A i \in 1..Len(rows) : Shown(rows[i].category, rows[i].name)

\* C6 witness: a search returned a hidden, an "entity" or an ordinary package
\* mix and all three consumers have shown it, after an earlier search.
C6_Witness ==
    /\ f_todo = {} /\ f_result.kind = "packages"
    /\ f_result.packages = <<Pkg("entity", "root", FALSE), Pkg("apps", "vim", TRUE)>>
    /\ NamesOf(t_results) = << <<"apps", "vim">> >>
    /\ NamesOf(g_liststore) = << <<"apps", "vim">> >>
    /\ NamesOf(c_out.packages) = << <<"apps", "vim">> >>

\* C8: the GUI's tables and PackageFilter classify every key identically, so
\* for the same search both front-ends list the same packages and offer the
\* same action (Protected / Remove / Install) for each.
C8_SameClassification ==
    (t_last = g_last) =>
        /\ NamesOf(t_results) = NamesOf(g_liststore)
        /\ \A i \in 1..Len(t_results) :
              i <= Len(g_liststore) =>
                 g_liststore[i].action = TuiActionText(t_results[i])


-----------------------------------------------------------------------------
(* The curses TUI: main loop, keys of the results list, install / uninstall *)

\* Packages the TUI searches report in this component.
TuiUniverse ==
    { Pkg("apps", "vim", FALSE),
      Pkg("apps", "vim", TRUE),
      Pkg("apps", "grub", TRUE),
      Pkg("system", "kernel-updater", FALSE) }

TuiSearchResults ==
    { [kind |-> "error", packages |-> <<>>] }
    \cup { [kind |-> "packages", packages |-> ps] :
             ps \in SeqsUpTo(TuiUniverse, MaxPkgs) }

\* what the user can have typed into the search box
Queries == {"", "vim"}

SearchFinishedCallback(result) ==
    [cb |-> "on_search_finished", status |-> "", error |-> FALSE, result |-> result]

\* on_done(returncode) of an install or uninstall; `status` carries the
\* error text the closure would set.
DoneCallback(rc) ==
    [cb |-> "on_done", status |-> "Error installing/uninstalling",
     error |-> (rc # 0), result |-> NoResult]

\* LuetTUI.run: is_busy
IsBusy == t_status # "Ready" /\ ~t_error

\* LuetTUI.run: a key pressed while an error is shown first clears it.
StatusAfterKey == IF t_error THEN "Ready" ELSE t_status

\* LuetTUI.do_install_uninstall_selected: the command for the selected row.
InstallCmd(pkg) == <<"luet", "install", "-y", Key(pkg.category, pkg.name)>>

UninstallCmd(pkg) ==
    IF pkg.category = "apps"
    THEN <<"luet", "uninstall", "-y", "--solver-concurrent", "--full",
           Key(pkg.category, pkg.name)>>
    ELSE <<"luet", "uninstall", "-y", Key(pkg.category, pkg.name)>>

\* LuetTUI.run_search as called from a handler: status and worker thread.
SearchWorker == [op |-> "search"]
CommandWorker == [op |-> "command"]

\* scheduler.drain(): one callback taken from the queue and called.
TuiDrainRun ==
    /\ TuiFrame
    /\ t_pc = "drain"
    /\ t_queue # <<>>
    /\ LET cb == Head(t_queue)
           rest == Tail(t_queue)
       IN CASE cb.cb = "on_search_finished" ->
                 /\ TuiOnSearchFinished(cb.result, rest)
                 /\ UNCHANGED t_workers
            [] cb.cb = "set_status" ->
                 /\ TuiSetStatus(cb, rest)
                 /\ UNCHANGED t_workers
            [] cb.cb = "on_done" ->
                 /\ t_queue' = rest
                 /\ UNCHANGED <<t_results, t_selected, t_last>>
                 /\ IF ~cb.error
                    THEN \* set_status("Ready"); if self.search_query: run_search
                         IF t_query # ""
                         THEN /\ t_status' = "Searching"
                              /\ t_error' = FALSE
                              /\ t_workers' = Append(t_workers, SearchWorker)
                         ELSE /\ t_status' = "Ready"
                              /\ t_error' = FALSE
                              /\ UNCHANGED t_workers
                    ELSE /\ t_status' = cb.status
                         /\ t_error' = TRUE
                         /\ UNCHANGED t_workers
    /\ UNCHANGED <<t_pc, t_focus, t_query, t_started, t_message>>

\* scheduler.drain() finds the queue empty and returns; the loop goes on to getch.
TuiDrainEnd ==
    /\ TuiFrame
    /\ t_pc = "drain"
    /\ t_queue = <<>>
    /\ t_pc' = "input"
    /\ UNCHANGED <<tuiListVars, t_focus, t_query, t_workers, t_started, t_message>>

\* run(): getch() returns -1, or a key that is ignored because the TUI is busy.
TuiNoKey ==
    /\ TuiFrame
    /\ t_pc = "input"
    /\ t_pc' = "drain"
    /\ UNCHANGED <<tuiListVars, t_focus, t_query, t_workers, t_started, t_message>>

\* run(): KEY_DOWN / KEY_UP with the focus on the list.
TuiKeyMove ==
    /\ TuiFrame
    /\ t_pc = "input"
    /\ ~IsBusy
    /\ t_focus = "list"
    /\ \E key \in {"down", "up"} :
        IF key = "down"
        THEN /\ t_selected' = IF t_selected < Len(t_results) - 1
                              THEN t_selected + 1 ELSE t_selected
             /\ t_focus' = t_focus
        ELSE /\ t_selected' = IF t_selected > 0 THEN t_selected - 1 ELSE t_selected
             /\ t_focus' = IF t_selected > 0 THEN t_focus ELSE "search"
    /\ t_status' = StatusAfterKey
    /\ t_error' = FALSE
    /\ t_pc' = "drain"
    /\ UNCHANGED <<t_queue, t_results, t_last, t_query, t_workers, t_started, t_message>>

\* run(): 's' in the list gives the focus to the search box; in the search
\* box a printable key or backspace edits the query, Down / Tab / Esc leave it.
TuiKeyEdit ==
    /\ TuiFrame
    /\ t_pc = "input"
    /\ ~IsBusy
    /\ \/ /\ t_focus = "list"
          /\ t_focus' = "search"
          /\ t_query' = t_query
       \/ /\ t_focus = "search"
          /\ t_focus' = t_focus
          /\ t_query' \in Queries
       \/ /\ t_focus = "search"
          /\ t_focus' = "list"
          /\ t_query' = t_query
    /\ t_status' = StatusAfterKey
    /\ t_error' = FALSE
    /\ t_pc' = "drain"
    /\ UNCHANGED <<t_queue, t_results, t_selected, t_last, t_workers, t_started, t_message>>

\* run(): Enter in the search box: run_search(query) when there is a query.
TuiKeyEnterSearch ==
    /\ TuiFrame
    /\ t_pc = "input"
    /\ ~IsBusy
    /\ t_focus = "search"
    /\ IF t_query # ""
       THEN /\ t_status' = "Searching"
            /\ t_workers' = Append(t_workers, SearchWorker)
       ELSE /\ t_status' = StatusAfterKey
            /\ t_workers' = t_workers
    /\ t_error' = FALSE
    /\ t_focus' = "list"
    /\ t_pc' = "drain"
    /\ UNCHANGED <<t_queue, t_results, t_selected, t_last, t_query, t_started, t_message>>

\* Mutation: the protected flag of the selected row is not looked at.
RowIsProtected_Ignored(pkg) == FALSE

\* do_install_uninstall_selected: protected = pkg.get("protected", False)
RowIsProtected(pkg) == pkg.protected

\* run(): 'i' / 'I' / space in the list: do_install_uninstall_selected, with
\* the answer the user gives to confirm_yes_no.
TuiKeyInstall ==
    /\ TuiFrame
    /\ t_pc = "input"
    /\ ~IsBusy
    /\ t_focus = "list"
    /\ \E yes \in BOOLEAN :
        IF ~(0 <= t_selected /\ t_selected < Len(t_results))
        THEN /\ t_status' = StatusAfterKey
             /\ UNCHANGED <<t_workers, t_started, t_message>>
        ELSE LET pkg == t_results[t_selected + 1] IN
             IF RowIsProtected(pkg)
             THEN /\ t_message' = Key(pkg.category, pkg.name)
                  /\ t_status' = StatusAfterKey
                  /\ UNCHANGED <<t_workers, t_started>>
             ELSE IF ~yes
             THEN /\ t_status' = StatusAfterKey
                  /\ UNCHANGED <<t_workers, t_started, t_message>>
             ELSE /\ t_started' = IF pkg.installed THEN UninstallCmd(pkg)
                                  ELSE InstallCmd(pkg)
                  /\ t_status' = IF pkg.installed THEN "Uninstalling" ELSE "Installing"
                  /\ t_workers' = Append(t_workers, CommandWorker)
                  /\ UNCHANGED t_message
    /\ t_error' = FALSE
    /\ t_pc' = "drain"
    /\ UNCHANGED <<t_queue, t_results, t_selected, t_last, t_focus, t_query>>

\* A search worker thread: run_search_core returned, on_search_finished is scheduled.
TuiWorkerSearchDone ==
    /\ TuiFrame
    /\ t_workers # <<>>
    /\ Head(t_workers).op = "search"
    /\ \E result \in TuiSearchResults :
        t_queue' = Append(t_queue, SearchFinishedCallback(result))
    /\ t_workers' = Tail(t_workers)
    /\ UNCHANGED <<t_results, t_selected, t_status, t_error, t_last,
                   t_pc, t_focus, t_query, t_started, t_message>>

\* The runner's thread of an install / uninstall: on_done(returncode) is scheduled.
TuiWorkerCommandDone ==
    /\ TuiFrame
    /\ t_workers # <<>>
    /\ Head(t_workers).op = "command"
    /\ \E rc \in ExitCodes \cup {-1} :
        t_queue' = Append(t_queue, DoneCallback(rc))
    /\ t_workers' = Tail(t_workers)
    /\ UNCHANGED <<t_results, t_selected, t_status, t_error, t_last,
                   t_pc, t_focus, t_query, t_started, t_message>>

TuiNext ==
    \/ TuiDrainRun
    \/ TuiDrainEnd
    \/ TuiNoKey
    \/ TuiKeyMove
    \/ TuiKeyEdit
    \/ TuiKeyEnterSearch
    \/ TuiKeyInstall
    \/ TuiWorkerSearchDone
    \/ TuiWorkerCommandDone

-----------------------------------------------------------------------------
(* Claims about the TUI, checked under SpecTui *)

\* C7: in the curses TUI no `luet uninstall` and no `luet install` is ever
\* started for a selected package whose key is in PackageFilter's protected
\* table; the install/uninstall key on such a package only shows its
\* protection message.
C7_ProtectedNeverStarted ==
    /\ t_started # <<>> =>
          /\ Last(t_started) \notin ProtectedPackages
          /\ t_started[2] \in {"install", "uninstall"}
    /\ \A i \in 1..Len(t_results) :
          t_results[i].protected
             <=> (Key(t_results[i].category, t_results[i].name) \in ProtectedPackages)
    /\ t_message # "" => t_message \in ProtectedPackages

\* C7 witness: the install key was pressed on a protected, not installed row
\* (the second of the list) and its message is shown; an earlier key had
\* started a command for another package.
C7_Witness ==
    /\ t_message = "system/kernel-updater"
    /\ t_selected = 1
    /\ t_started # <<>>
    /\ Len(t_results) = 2


-----------------------------------------------------------------------------
(* SystemChecker._parse_reinstall_candidates *)

\* Unicode code points of the characters that occur, for sorted().
CodePoint(c) ==
    CASE c = "\n" -> 10 [] c = " " -> 32 [] c = "-" -> 45 [] c = "." -> 46
      [] c = "/" -> 47 [] c = "0" -> 48 [] c = "1" -> 49 [] c = "9" -> 57
      [] c = ":" -> 58 [] c = "X" -> 88
      [] c = "a" -> 97 [] c = "d" -> 100 [] c = "e" -> 101 [] c = "g" -> 103
      [] c = "i" -> 105 [] c = "k" -> 107 [] c = "l" -> 108 [] c = "m" -> 109
      [] c = "n" -> 110 [] c = "p" -> 112 [] c = "r" -> 114 [] c = "s" -> 115
      [] c = "t" -> 116 [] c = "u" -> 117 [] c = "v" -> 118 [] c = "y" -> 121

RECURSIVE StrLess(_, _)
\* Python's < on str: lexicographic by code point
StrLess(a, b) ==
    IF b = <<>> THEN FALSE
    ELSE IF a = <<>> THEN TRUE
    ELSE IF Head(a) = Head(b) THEN StrLess(Tail(a), Tail(b))
    ELSE CodePoint(Head(a)) < CodePoint(Head(b))

RECURSIVE Sorted(_)
\* sorted(candidates.keys()) for a set of distinct strings
Sorted(S) ==
    IF S = {} THEN <<>>
    ELSE LET least == CHOOSE x \in S : \A y \in S \ {x} : StrLess(x, y)
         IN <<least>> \o Sorted(S \ {least})

RECURSIVE Split(_, _)
\* str.split(sep) for a one-character separator
Split(str, sep) ==
    IF \A i \in 1..Len(str) : str[i] # sep THEN <<str>>
    ELSE LET k == CHOOSE i \in 1..Len(str) :
                     str[i] = sep /\ \A j \in 1..(i - 1) : str[j] # sep
         IN <<SubSeq(str, 1, k - 1)>> \o Split(SubSeq(str, k + 1, Len(str)), sep)

RECURSIVE Words(_)
\* the maximal runs of non-whitespace characters of a line, left to right
Words(line) ==
    IF line = <<>> THEN <<>>
    ELSE IF Head(line) = " " THEN Words(Tail(line))
    ELSE LET parts == Split(line, " ")
         IN <<parts[1]>> \o Words(SubSeq(line, Len(parts[1]) + 1, Len(line)))

\* the text r"\S+/\S+" can match inside one word: a "/" with a character
\* before it and one after it
HasInnerSlash(w) == \E i \in 2..(Len(w) - 1) : w[i] = "/"

\* pkg_id_pattern.search(line).group(1): the leftmost word with an inner "/"
\* (both \S+ are greedy, so the match is the whole word), <<>> for no match
SearchPkgId(line) ==
    LET ws == Words(line)
        hits == {i \in 1..Len(ws) : HasInnerSlash(ws[i])}
    IN IF hits = {} THEN <<>>
       ELSE ws[CHOOSE i \in hits : \A j \in hits : i <= j]

\* pkg_name_with_version.split('-')[0]
NameOnly(nameWithVersion) == Split(nameWithVersion, "-")[1]

\* The loop body for one line: the candidate keys it adds (none or one).
LineCandidates(line) ==
    LET m == SearchPkgId(line) IN
    IF m = <<>> THEN {}
    ELSE LET fullPkgId == Split(m, ":")[1]
             parts == Split(fullPkgId, "/")
         IN IF Len(parts) >= 2
            THEN {parts[Len(parts) - 1] \o <<"/">> \o NameOnly(parts[Len(parts)])}
            ELSE {}

\* SystemChecker._parse_reinstall_candidates(output)
ParseReinstallCandidates(output) ==
    LET lines == Split(output, "\n")
    IN Sorted(UNION {LineCandidates(lines[i]) : i \in 1..Len(lines)})

\* RECURSIVE join of lines with "\n"
RECURSIVE JoinLines(_)
JoinLines(ls) ==
    IF ls = <<>> THEN <<>>
    ELSE IF Len(ls) = 1 THEN ls[1]
    ELSE ls[1] \o <<"\n">> \o JoinLines(Tail(ls))

Apps == <<"a", "p", "p", "s">>
System == <<"s", "y", "s", "t", "e", "m">>
Layers == <<"l", "a", "y", "e", "r", "s">>
Missing == <<"m", "i", "s", "s", "i", "n", "g">>

\* Packages oscheck can report: category, name, version (<<>> for none).
Reportable ==
    { [category |-> Apps, name |-> <<"v", "i", "m">>, version |-> <<"9", ".", "0">>],
      [category |-> Apps, name |-> <<"v", "i", "m">>, version |-> <<>>],
      [category |-> Layers, name |-> <<"X">>, version |-> <<"1", ".", "0">>],
      [category |-> System,
       name |-> <<"k", "e", "r", "n", "e", "l", "-", "u", "p", "d", "a", "t", "e", "r">>,
       version |-> <<"1", ".", "0">>] }

\* category/name-version, or category/name
PkgId(p) ==
    p.category \o <<"/">> \o p.name
      \o (IF p.version = <<>> THEN <<>> ELSE <<"-">> \o p.version)

\* The two shapes of a report line: the identifier alone, and followed by text.
ReportLine(p, verbose) ==
    IF verbose THEN PkgId(p) \o <<":", " ">> \o Missing ELSE PkgId(p)

Reports == { [pkg |-> p, verbose |-> v] : p \in Reportable, v \in BOOLEAN }

OscheckOutput(reports) ==
    JoinLines([i \in 1..Len(reports) |-> ReportLine(reports[i].pkg, reports[i].verbose)])

ParseInit ==
    /\ o_reported \in SeqsUpTo(Reports, MaxReports)
    /\ o_output = OscheckOutput(o_reported)
    /\ o_result = "none"

ParseIdle ==
    /\ o_reported = <<>>
    /\ o_output = <<>>
    /\ o_result = "none"

\* A call of _parse_reinstall_candidates on the output.
ParseCall ==
    /\ ParseFrame
    /\ o_result = "none"
    /\ o_result' = ParseReinstallCandidates(o_output)
    /\ UNCHANGED <<o_reported, o_output>>

\* The next oscheck output is produced.
ParseNextOutput ==
    /\ ParseFrame
    /\ o_result # "none"
    /\ o_reported' \in SeqsUpTo(Reports, MaxReports)
    /\ o_output' = OscheckOutput(o_reported')
    /\ o_result' = "none"

ParseNext ==
    \/ ParseCall
    \/ ParseNextOutput

-----------------------------------------------------------------------------
(* Claims about the parser, checked under SpecParse *)

\* the identifiers category/name of the reported packages, each once, sorted
ReportedIds ==
    Sorted({ o_reported[i].pkg.category \o <<"/">> \o o_reported[i].pkg.name :
               i \in 1..Len(o_reported) })

\* C9: for oscheck output in which each reported package appears on a line
\* as category/name-version (or category/name), the parser returns exactly
\* the identifiers category/name of the reported packages, version removed,
\* each once, sorted, whatever characters the package name contains.
C9_ReturnsReportedIds ==
    o_result # "none" => o_result = ReportedIds


-----------------------------------------------------------------------------
(* SystemChecker.run_check_system and the thread _do_check_system *)

\* "needle in text" for str
Contains(text, needle) ==
    \E i \in 0..(Len(text) - Len(needle)) :
        SubSeq(text, i + 1, i + Len(needle)) = needle

\* full_log.strip() is not empty
NonBlank(text) == \E i \in 1..Len(text) : text[i] \notin {" ", "\n"}

\* "{}".format(n) for the small numbers that occur
Format(n) == <<(<<"0", "1", "2", "3", "4", "5", "6", "7", "8", "9">>)[n + 1]>>

\* What the reinstall command can print.
ReinstallOutputs == {<<>>, <<"d", "o", "n", "e">>}

RunCall(cmd, pkg) == [cb |-> "command_runner_sync", msg |-> cmd, arg |-> pkg]
LogCall(msg, arg) == [cb |-> "log_callback", msg |-> msg, arg |-> arg]
ExitCall(msg, arg) == [cb |-> "on_thread_exit_callback", msg |-> msg, arg |-> arg]
FinishCall(ok) == [cb |-> "on_reinstall_finish_callback", repair_ok |-> ok]

\* log_result(command, result): the log_callback calls it makes
LogResult(output) ==
    IF NonBlank(output \o <<"\n">>)
    THEN <<LogCall("{}", output \o <<"\n">>)>>
    ELSE <<>>

OscheckFailed == "luet oscheck failed with return code {}"
CheckFailed == "System check failed due to exception"

\* status_message = None, and no exception being handled
NoStatus == [msg |-> "None", arg |-> <<>>]
NoException == [msg |-> "none", arg |-> <<>>]

\* "return code" in str(e)
\* _(...) returns the English text unless the catalog translates it, and only
\* the English text of OscheckFailed contains "return code".
MentionsReturnCode(e) == e.msg = OscheckFailed /\ ~k_translated

CheckInit ==
    /\ k_pc = "idle"
    /\ k_output = <<>>
    /\ k_rc = -1
    /\ k_candidates = <<>>
    /\ k_idx = 0
    /\ k_repair_ok = TRUE
    /\ k_exc = NoException
    /\ k_status = NoStatus
    /\ k_calls = <<>>
    /\ k_rcs = <<>>
    /\ k_translated \in BOOLEAN

CheckIdle == CheckInit /\ ~k_translated

\* run_check_system: the thread is started.
RunCheckSystem ==
    /\ CheckFrame
    /\ UNCHANGED <<k_rcs, k_translated>>
    /\ k_pc = "idle"
    /\ k_pc' = "oscheck"
    /\ UNCHANGED <<k_output, k_rc, k_candidates, k_idx, k_repair_ok, k_exc,
                   k_status, k_calls>>

\* command_runner_sync(["luet", "oscheck"]) returns; log_result logs it.
OscheckReturns ==
    /\ CheckFrame
    /\ UNCHANGED <<k_rcs, k_translated>>
    /\ k_pc = "oscheck"
    /\ \E reports \in SeqsUpTo(Reports, MaxReports), rc \in ExitCodes :
         /\ k_output' = OscheckOutput(reports)
         /\ k_rc' = rc
         /\ k_calls' = k_calls \o <<RunCall("luet oscheck", <<>>)>>
                         \o LogResult(OscheckOutput(reports))
    /\ k_pc' = "result"
    /\ UNCHANGED <<k_candidates, k_idx, k_repair_ok, k_exc, k_status>>

\* command_runner_sync(["luet", "oscheck"]) raises.
OscheckRaises ==
    /\ CheckFrame
    /\ UNCHANGED <<k_rcs, k_translated>>
    /\ k_pc = "oscheck"
    /\ k_calls' = k_calls \o <<RunCall("luet oscheck", <<>>)>>
    /\ k_exc' = [msg |-> "No elevation helper available", arg |-> <<>>]
    /\ k_pc' = "except"
    /\ UNCHANGED <<k_output, k_rc, k_candidates, k_idx, k_repair_ok, k_status>>

\* The return code and the output are examined.
CheckResult ==
    /\ CheckFrame
    /\ UNCHANGED <<k_rcs, k_translated>>
    /\ k_pc = "result"
    /\ IF k_rc # 0
       THEN /\ k_exc' = [msg |-> OscheckFailed, arg |-> Format(k_rc)]
            /\ k_pc' = "except"
            /\ UNCHANGED <<k_candidates, k_calls>>
       ELSE LET candidates == IF Contains(k_output, Missing)
                              THEN ParseReinstallCandidates(k_output)
                              ELSE <<>>
            IN /\ k_candidates' = candidates
               /\ k_exc' = k_exc
               /\ IF candidates # <<>>
                  THEN /\ k_calls' = k_calls \o
                            <<LogCall("Repair sequence started for {} missing packages.\n",
                                      Format(Len(candidates))),
                              LogCall("Found {} missing packages. Starting repair immediately.\n",
                                      Format(Len(candidates)))>>
                       /\ k_pc' = "loop"
                  ELSE /\ k_calls' = k_calls
                       /\ k_pc' = "finally"
    /\ UNCHANGED <<k_output, k_rc, k_idx, k_repair_ok, k_status>>

\* Mutation: the package is announced through on_reinstall_status_callback.
ReinstallAnnounce_Status(pkg) ==
    <<[cb |-> "on_reinstall_status_callback", msg |-> "Reinstalling {}...", arg |-> pkg]>>

\* What the loop reports before it reinstalls pkg: a log line only.
ReinstallAnnounce(pkg) == <<LogCall("Reinstalling {}...\n", pkg)>>

\* Mutation: repair_ok follows the last reinstall only.
RepairOk_LastOnly(repair_ok, returncode) == returncode = 0

\* repair_ok after a reinstall that returned returncode
RepairOk(repair_ok, returncode) == repair_ok /\ returncode = 0

\* for pkg in candidates: the next package is announced.
ReinstallBegin ==
    /\ CheckFrame
    /\ UNCHANGED <<k_rcs, k_translated>>
    /\ k_pc = "loop"
    /\ k_idx < Len(k_candidates)
    /\ k_idx' = k_idx + 1
    /\ k_calls' = k_calls \o ReinstallAnnounce(k_candidates[k_idx + 1])
    /\ k_pc' = "reinstall"
    /\ UNCHANGED <<k_output, k_rc, k_candidates, k_repair_ok, k_exc, k_status>>

\* command_runner_sync(["luet", "reinstall", "-y", pkg]) returns.
ReinstallReturns ==
    /\ CheckFrame
    /\ UNCHANGED k_translated
    /\ k_pc = "reinstall"
    /\ \E out \in ReinstallOutputs, rc \in ExitCodes :
         /\ k_calls' = k_calls
               \o <<RunCall("luet reinstall -y", k_candidates[k_idx])>>
               \o LogResult(out)
               \o (IF rc # 0
                   THEN <<LogCall("Failed reinstalling {}\n", k_candidates[k_idx])>>
                   ELSE <<>>)
         /\ k_repair_ok' = RepairOk(k_repair_ok, rc)
         /\ k_rcs' = Append(k_rcs, rc)
    /\ k_pc' = "loop"
    /\ UNCHANGED <<k_output, k_rc, k_candidates, k_idx, k_exc, k_status>>

\* command_runner_sync(["luet", "reinstall", "-y", pkg]) raises.
ReinstallRaises ==
    /\ CheckFrame
    /\ UNCHANGED <<k_rcs, k_translated>>
    /\ k_pc = "reinstall"
    /\ k_calls' = k_calls \o <<RunCall("luet reinstall -y", k_candidates[k_idx])>>
    /\ k_exc' = [msg |-> "No elevation helper available", arg |-> <<>>]
    /\ k_pc' = "except"
    /\ UNCHANGED <<k_output, k_rc, k_candidates, k_idx, k_repair_ok, k_status>>

\* Where "return" inside the try leads: the finally block runs first.
AfterFinish == "finally"

\* After the loop: on_reinstall_finish_callback(repair_ok); return.
ReinstallFinish ==
    /\ CheckFrame
    /\ UNCHANGED <<k_rcs, k_translated>>
    /\ k_pc = "loop"
    /\ k_idx = Len(k_candidates)
    /\ k_calls' = k_calls \o <<FinishCall(k_repair_ok)>>
    /\ k_pc' = AfterFinish
    /\ UNCHANGED <<k_output, k_rc, k_candidates, k_idx, k_repair_ok, k_exc, k_status>>

\* except Exception as e: status_message is chosen.
CheckExcept ==
    /\ CheckFrame
    /\ UNCHANGED <<k_rcs, k_translated>>
    /\ k_pc = "except"
    /\ k_status' = IF MentionsReturnCode(k_exc)
                   THEN [msg |-> k_exc.msg, arg |-> k_exc.arg]
                   ELSE [msg |-> CheckFailed, arg |-> <<>>]
    /\ k_pc' = "finally"
    /\ UNCHANGED <<k_output, k_rc, k_candidates, k_idx, k_repair_ok, k_exc, k_calls>>

\* finally: on_thread_exit_callback with status_message, or with "Ready".
CheckFinally ==
    /\ CheckFrame
    /\ UNCHANGED <<k_rcs, k_translated>>
    /\ k_pc = "finally"
    /\ k_calls' = k_calls \o
          <<IF k_status # NoStatus THEN ExitCall(k_status.msg, k_status.arg)
            ELSE ExitCall("Ready", <<>>)>>
    /\ k_pc' = "done"
    /\ UNCHANGED <<k_output, k_rc, k_candidates, k_idx, k_repair_ok, k_exc, k_status>>

CheckNext ==
    \/ RunCheckSystem
    \/ OscheckReturns
    \/ OscheckRaises
    \/ CheckResult
    \/ ReinstallBegin
    \/ ReinstallReturns
    \/ ReinstallRaises
    \/ ReinstallFinish
    \/ CheckExcept
    \/ CheckFinally

-----------------------------------------------------------------------------
(* Claims about the system check, checked under SpecCheck *)

CallsOf(name) == {i \in 1..Len(k_calls) : k_calls[i].cb = name}

TerminalCalls ==
    CallsOf("on_reinstall_finish_callback") \cup CallsOf("on_thread_exit_callback")

\* a reinstall command was started
RepairAttempted ==
    \E i \in CallsOf("command_runner_sync") : k_calls[i].msg = "luet reinstall -y"

ReadyCalls ==
    {i \in CallsOf("on_thread_exit_callback") : k_calls[i].msg = "Ready"}

\* C10: in every run of _do_check_system exactly one terminal callback is
\* invoked, on_reinstall_finish_callback when a repair was attempted and
\* on_thread_exit_callback otherwise, and on_thread_exit_callback("Ready")
\* is invoked only if oscheck succeeded and no package needed repair.
C10_OneTerminalCallback ==
    /\ k_pc = "done" =>
         /\ Cardinality(TerminalCalls) = 1
         /\ IF RepairAttempted
            THEN CallsOf("on_thread_exit_callback") = {}
            ELSE CallsOf("on_reinstall_finish_callback") = {}
    /\ ReadyCalls # {} => (k_rc = 0 /\ k_candidates = <<>>)


\* the packages handed to "luet reinstall -y", in the order of the calls
Reinstalled ==
    LET at == SelectSeq([i \in 1..Len(k_calls) |-> i],
                        LAMBDA i : /\ k_calls[i].cb = "command_runner_sync"
                                   /\ k_calls[i].msg = "luet reinstall -y")
    IN [n \in 1..Len(at) |-> k_calls[at[n]].arg]

\* every reinstall command so far returned an exit code (none raised)
ReinstallsReturned == Len(k_rcs) = Len(Reinstalled)

OscheckFailedOrRaised ==
    \/ k_rc > 0
    \/ /\ k_rc = -1
       /\ k_exc # NoException

\* C17: when luet oscheck exits with a non-zero code, or running it raises,
\* no reinstall command is started and on_reinstall_finish_callback is not
\* called; on_thread_exit_callback is called exactly once with a failure
\* message, which names the return code when oscheck exited non-zero.
C17_OscheckFailure ==
    (k_pc = "done" /\ OscheckFailedOrRaised) =>
      /\ Reinstalled = <<>>
      /\ CallsOf("on_reinstall_finish_callback") = {}
      /\ Cardinality(CallsOf("on_thread_exit_callback")) = 1
      /\ \A j \in CallsOf("on_thread_exit_callback") :
           /\ k_calls[j].msg # "Ready"
           /\ k_rc > 0 => /\ k_calls[j].msg = OscheckFailed
                          /\ k_calls[j].arg = Format(k_rc)

\* C18 as stated: when the system check finds packages to repair,
\* on_reinstall_start_callback is invoked once before the first reinstall
\* command, and on_reinstall_status_callback for each package while it is
\* being reinstalled.
C18_StartAndStatusCallbacks ==
    Reinstalled # <<>> =>
      /\ Cardinality(CallsOf("on_reinstall_start_callback")) = 1
      /\ Cardinality(CallsOf("on_reinstall_status_callback")) = Len(Reinstalled)

\* the log_callback calls that announce a package, in order
Announced ==
    LET at == SelectSeq([i \in 1..Len(k_calls) |-> i],
                        LAMBDA i : /\ k_calls[i].cb = "log_callback"
                                   /\ k_calls[i].msg = "Reinstalling {}...\n")
    IN [n \in 1..Len(at) |-> k_calls[at[n]].arg]

\* C18: when the system check finds packages to repair, neither
\* on_reinstall_start_callback nor on_reinstall_status_callback is ever
\* invoked; the start of the repair and every package are reported through
\* log_callback only, each package before its reinstall command is started.
C18_ProgressThroughLogOnly ==
    /\ CallsOf("on_reinstall_start_callback") = {}
    /\ CallsOf("on_reinstall_status_callback") = {}
    /\ Reinstalled = SubSeq(Announced, 1, Len(Reinstalled))
    /\ Len(Announced) <= Len(Reinstalled) + 1
    /\ Announced = SubSeq(k_candidates, 1, Len(Announced))

\* a finished repair of several packages
C18_Witness ==
    /\ k_pc = "done"
    /\ Len(Reinstalled) = MaxReports
    /\ Len(Announced) = MaxReports

-----------------------------------------------------------------------------
(* RepositoryUpdater.run_repo_update *)

\* What inhibit_setter can return: 0 (the TUI, or nothing to inhibit) or the
\* cookie of Gtk.Application.inhibit.
Cookies == {0, 1, 2}

Scheduled(fn, arg) == [fn |-> fn, arg |-> arg]

\* Mutation: on_done forgets the cleanup.
OnDone_NoFinish(returncode, cookie) ==
    <<Scheduled(IF returncode = 0 THEN "on_success_callback"
                ELSE "on_error_callback", <<>>)>>

\* on_done(returncode): what it hands to schedule_callback
OnDone(returncode, cookie) ==
    <<Scheduled(IF returncode = 0 THEN "on_success_callback"
                ELSE "on_error_callback", <<>>),
      Scheduled("on_finish_callback", <<cookie>>)>>

\* except Exception: what it hands to schedule_callback
RepoExcept(cookie) ==
    <<Scheduled("on_error_callback", <<>>),
      Scheduled("on_finish_callback", <<cookie>>)>>

RepoSchedule(calls) ==
    /\ u_q' = u_q \o calls
    /\ u_scheduled' = u_scheduled \o calls

RepoInit ==
    /\ u_pc = "idle"
    /\ u_cookie = 0
    /\ u_inhibited = FALSE
    /\ u_thread = "none"
    /\ u_lines = 0
    /\ u_q = <<>>
    /\ u_scheduled = <<>>
    /\ u_ran = <<>>

\* run_repo_update is entered: inhibit_cookie = 0.
RunRepoUpdate ==
    /\ RepoFrame
    /\ u_pc = "idle"
    /\ u_pc' = "inhibit"
    /\ u_cookie' = 0
    /\ UNCHANGED <<u_inhibited, u_thread, u_lines, u_q, u_scheduled, u_ran>>

\* inhibit_setter(True, ...) returns a cookie; on_done is defined.
InhibitReturns ==
    /\ RepoFrame
    /\ u_pc = "inhibit"
    /\ u_cookie' \in Cookies
    /\ u_inhibited' = TRUE
    /\ u_pc' = "run"
    /\ UNCHANGED <<u_thread, u_lines, u_q, u_scheduled, u_ran>>

\* inhibit_setter raises: the except branch.
InhibitRaises ==
    /\ RepoFrame
    /\ u_pc = "inhibit"
    /\ RepoSchedule(RepoExcept(u_cookie))
    /\ u_pc' = "returned"
    /\ UNCHANGED <<u_cookie, u_inhibited, u_thread, u_lines, u_ran>>

\* command_runner_realtime finds no elevation helper: schedules
\* on_finished(-1) and returns.
RepoRunnerNoHelper ==
    /\ RepoFrame
    /\ u_pc = "run"
    /\ RepoSchedule(<<Scheduled("on_done", <<-1>>)>>)
    /\ u_pc' = "returned"
    /\ UNCHANGED <<u_cookie, u_inhibited, u_thread, u_lines, u_ran>>

\* command_runner_realtime starts its reader thread and returns.
RepoRunnerStarts ==
    /\ RepoFrame
    /\ u_pc = "run"
    /\ u_thread' = "running"
    /\ u_pc' = "returned"
    /\ UNCHANGED <<u_cookie, u_inhibited, u_lines, u_q, u_scheduled, u_ran>>

\* command_runner_realtime raises (the thread cannot be started): the except
\* branch.
RepoRunnerRaises ==
    /\ RepoFrame
    /\ u_pc = "run"
    /\ RepoSchedule(RepoExcept(u_cookie))
    /\ u_pc' = "returned"
    /\ UNCHANGED <<u_cookie, u_inhibited, u_thread, u_lines, u_ran>>

\* thread_func reads one line and schedules on_line_received.
RepoThreadLine ==
    /\ RepoFrame
    /\ u_thread = "running"
    /\ u_lines < MaxLines
    /\ u_lines' = u_lines + 1
    /\ RepoSchedule(<<Scheduled("on_log_callback", <<u_lines + 1>>)>>)
    /\ UNCHANGED <<u_pc, u_cookie, u_inhibited, u_thread, u_ran>>

\* thread_func reaches end of output: schedules on_finished(return_code).
RepoThreadFinish ==
    /\ RepoFrame
    /\ u_thread = "running"
    /\ u_thread' = "done"
    /\ \E rc \in ExitCodes : RepoSchedule(<<Scheduled("on_done", <<rc>>)>>)
    /\ UNCHANGED <<u_pc, u_cookie, u_inhibited, u_lines, u_ran>>

\* thread_func catches an exception: schedules the error line and
\* on_finished(-1).
RepoThreadExcept ==
    /\ RepoFrame
    /\ u_thread = "running"
    /\ u_thread' = "done"
    /\ RepoSchedule(<<Scheduled("on_log_callback", <<0>>),
                      Scheduled("on_done", <<-1>>)>>)
    /\ UNCHANGED <<u_pc, u_cookie, u_inhibited, u_lines, u_ran>>

\* The main thread runs the oldest scheduled call; on_done schedules the
\* result callback and the cleanup.
RepoMainRuns ==
    /\ RepoFrame
    /\ u_q # <<>>
    /\ u_ran' = Append(u_ran, Head(u_q))
    /\ LET more == IF Head(u_q).fn = "on_done"
                   THEN OnDone(Head(u_q).arg[1], u_cookie)
                   ELSE <<>>
       IN /\ u_q' = Tail(u_q) \o more
          /\ u_scheduled' = u_scheduled \o more
    /\ UNCHANGED <<u_pc, u_cookie, u_inhibited, u_thread, u_lines>>

RepoNext ==
    \/ RunRepoUpdate
    \/ InhibitReturns
    \/ InhibitRaises
    \/ RepoRunnerNoHelper
    \/ RepoRunnerStarts
    \/ RepoRunnerRaises
    \/ RepoThreadLine
    \/ RepoThreadFinish
    \/ RepoThreadExcept
    \/ RepoMainRuns

-----------------------------------------------------------------------------
(* Claims about the repository update, checked under SpecRepo *)

RepoScheduledAt(fn) == {i \in 1..Len(u_scheduled) : u_scheduled[i].fn = fn}

RepoResultCalls ==
    RepoScheduledAt("on_success_callback") \cup RepoScheduledAt("on_error_callback")

\* the command ran and exited with code 0
RepoExitedZero ==
    \E i \in 1..Len(u_ran) : u_ran[i].fn = "on_done" /\ u_ran[i].arg = <<0>>

\* run_repo_update has returned and nothing of it is left to run
RepoSettled ==
    /\ u_pc = "returned"
    /\ u_thread # "running"
    /\ u_q = <<>>

\* C11: for every call of run_repo_update exactly one of on_success_callback
\* (exit code 0) and on_error_callback (any other outcome) is scheduled, and
\* after it on_finish_callback is scheduled exactly once, with the cookie
\* obtained from inhibit_setter.
C11_ResultThenFinish ==
    /\ Cardinality(RepoResultCalls) <= 1
    /\ Cardinality(RepoScheduledAt("on_finish_callback")) <= 1
    /\ RepoScheduledAt("on_success_callback") # {} => RepoExitedZero
    /\ RepoScheduledAt("on_error_callback") # {} => ~RepoExitedZero
    /\ \A j \in RepoScheduledAt("on_finish_callback") :
         /\ \E i \in RepoResultCalls : i < j
         /\ u_scheduled[j].arg = <<u_cookie>>
         /\ ~u_inhibited => u_cookie = 0
    /\ RepoSettled =>
         /\ Cardinality(RepoResultCalls) = 1
         /\ Cardinality(RepoScheduledAt("on_finish_callback")) = 1

\* a settled update whose command ran to the end and a settled one that
\* failed before the command started
C11_Witness ==
    /\ RepoSettled
    /\ u_thread = "done"
    /\ u_cookie = 2
    /\ RepoScheduledAt("on_success_callback") # {}
    /\ Len(u_ran) = Len(u_scheduled)

-----------------------------------------------------------------------------
(* SystemUpgrader *)

\* Kinds of output line: one that contains "Executing finalizer for
\* repo-updater/", one that does not, and the runner's own
\* "Error executing command" line.
UpgradeLines == {"plain", "finalizer"}
UpgradeErrorLine == "error"

UpgScheduled(fn, arg) == [fn |-> fn, arg |-> arg]

\* Mutation: the second run is always wanted.
NeedsSecondRun_Always(lines) == TRUE

\* any("Executing finalizer for repo-updater/" in line for line in collected_lines)
NeedsSecondRun(lines) == \E i \in 1..Len(lines) : lines[i] = "finalizer"

UpgCommand(n) == [cb |-> "command_runner", run |-> n]

\* Mutation: the post action runs whatever the return code.
Finalize_AlwaysPost(returncode, message, thread) ==
    <<[cb |-> "on_finish_callback", rc |-> returncode, msg |-> message,
       thread |-> thread],
      [cb |-> "post_action_callback", thread |-> thread]>>

\* _finalize(returncode, success_message), called on the given thread:
\* the callbacks it invokes
Finalize(returncode, message, thread) ==
    <<[cb |-> "on_finish_callback", rc |-> returncode, msg |-> message,
       thread |-> thread]>>
    \o (IF returncode = 0
        THEN <<[cb |-> "post_action_callback", thread |-> thread]>>
        ELSE <<>>)

UpgradeInit ==
    /\ v_pc = "idle"
    /\ v_helper \in BOOLEAN
    /\ v_run = 0
    /\ v_thread = "none"
    /\ v_read = <<>>
    /\ v_nlines = 0
    /\ v_collected = <<>>
    /\ v_q = <<>>
    /\ v_calls = <<>>

UpgradeIdle == UpgradeInit /\ v_helper

\* The worker thread enters start_upgrade.
StartUpgrade ==
    /\ UpgradeFrame
    /\ v_pc = "idle"
    /\ v_pc' = "starting"
    /\ UNCHANGED <<v_helper, v_run, v_thread, v_read, v_nlines, v_collected,
                   v_q, v_calls>>

\* The runner finds no elevation helper for the first command: it schedules
\* on_finished(-1).
UpgFirstNoHelper ==
    /\ UpgradeFrame
    /\ v_pc = "starting"
    /\ ~v_helper
    /\ v_run' = 1
    /\ v_calls' = Append(v_calls, UpgCommand(1))
    /\ v_q' = Append(v_q, UpgScheduled("_on_first_run_done", -1))
    /\ v_pc' = "returned"
    /\ UNCHANGED <<v_helper, v_thread, v_read, v_nlines, v_collected>>

\* The runner starts the reader thread of the first command.
UpgFirstStarts ==
    /\ UpgradeFrame
    /\ v_pc = "starting"
    /\ v_helper
    /\ v_run' = 1
    /\ v_calls' = Append(v_calls, UpgCommand(1))
    /\ v_thread' = "running"
    /\ v_pc' = "returned"
    /\ UNCHANGED <<v_helper, v_read, v_nlines, v_collected, v_q>>

\* The runner raises for the first command: the except branch calls
\* _on_first_run_done(-1, ...) where it stands, in the worker thread.
UpgFirstRaises ==
    /\ UpgradeFrame
    /\ v_pc = "starting"
    /\ v_run' = 1
    /\ v_calls' = v_calls \o <<UpgCommand(1)>>
                    \o Finalize(-1, "Error starting upgrade process", "worker")
    /\ v_pc' = "returned"
    /\ UNCHANGED <<v_helper, v_thread, v_read, v_nlines, v_collected, v_q>>

\* on_line_received / on_finished of the run that is active
UpgLineCallback == IF v_run = 1 THEN "_on_line_first_run" ELSE "log_callback"
UpgDoneCallback == IF v_run = 1 THEN "_on_first_run_done" ELSE "_second_run_done"

\* The reader thread reads a line and schedules on_line_received.
UpgThreadLine ==
    /\ UpgradeFrame
    /\ v_thread = "running"
    /\ v_nlines < MaxLines
    /\ \E line \in UpgradeLines :
         /\ v_read' = IF v_run = 1 THEN Append(v_read, line) ELSE v_read
         /\ v_q' = Append(v_q, UpgScheduled(UpgLineCallback, line))
    /\ v_nlines' = v_nlines + 1
    /\ UNCHANGED <<v_pc, v_helper, v_run, v_thread, v_collected, v_calls>>

\* The reader thread reaches end of output and schedules on_finished.
UpgThreadFinish ==
    /\ UpgradeFrame
    /\ v_thread = "running"
    /\ v_thread' = "done"
    /\ \E rc \in ExitCodes : v_q' = Append(v_q, UpgScheduled(UpgDoneCallback, rc))
    /\ UNCHANGED <<v_pc, v_helper, v_run, v_read, v_nlines, v_collected, v_calls>>

\* The reader thread catches an exception: error line, then on_finished(-1).
UpgThreadExcept ==
    /\ UpgradeFrame
    /\ v_thread = "running"
    /\ v_thread' = "done"
    /\ v_q' = v_q \o <<UpgScheduled(UpgLineCallback, UpgradeErrorLine),
                      UpgScheduled(UpgDoneCallback, -1)>>
    /\ UNCHANGED <<v_pc, v_helper, v_run, v_read, v_nlines, v_collected, v_calls>>

\* Main thread: _on_line_first_run(line), or log_callback(line) in the
\* second run.
UpgMainLine ==
    /\ UpgradeFrame
    /\ v_q # <<>>
    /\ Head(v_q).fn \in {"_on_line_first_run", "log_callback"}
    /\ v_collected' = IF Head(v_q).fn = "_on_line_first_run"
                      THEN Append(v_collected, Head(v_q).arg)
                      ELSE v_collected
    /\ v_q' = Tail(v_q)
    /\ UNCHANGED <<v_pc, v_helper, v_run, v_thread, v_read, v_nlines, v_calls>>

\* Main thread: _on_first_run_done(returncode).
UpgMainFirstRunDone ==
    /\ UpgradeFrame
    /\ v_q # <<>>
    /\ Head(v_q).fn = "_on_first_run_done"
    /\ LET returncode == Head(v_q).arg
           decision == [cb |-> "_on_first_run_done", rc |-> returncode,
                        collected |-> v_collected]
       IN IF returncode # 0
          THEN /\ v_calls' = v_calls \o <<decision>>
                    \o Finalize(returncode, "Error during initial upgrade step", "main")
               /\ v_q' = Tail(v_q)
          ELSE IF NeedsSecondRun(v_collected)
          THEN /\ v_calls' = v_calls \o <<decision>>
               /\ v_q' = Append(Tail(v_q), UpgScheduled("_run_second_upgrade", 0))
          ELSE /\ v_calls' = v_calls \o <<decision>>
                    \o Finalize(returncode, "System upgrade completed successfully", "main")
               /\ v_q' = Tail(v_q)
    /\ UNCHANGED <<v_pc, v_helper, v_run, v_thread, v_read, v_nlines, v_collected>>

\* Main thread: _run_second_upgrade, the runner starts the reader thread.
UpgMainSecondStarts ==
    /\ UpgradeFrame
    /\ v_q # <<>>
    /\ Head(v_q).fn = "_run_second_upgrade"
    /\ v_helper
    /\ v_q' = Tail(v_q)
    /\ v_run' = 2
    /\ v_nlines' = 0
    /\ v_thread' = "running"
    /\ v_calls' = v_calls \o
          <<[cb |-> "status_callback", msg |-> "Continuing with package upgrade..."],
            UpgCommand(2)>>
    /\ UNCHANGED <<v_pc, v_helper, v_read, v_collected>>

\* Main thread: _run_second_upgrade, the runner raises.
UpgMainSecondRaises ==
    /\ UpgradeFrame
    /\ v_q # <<>>
    /\ Head(v_q).fn = "_run_second_upgrade"
    /\ v_q' = Tail(v_q)
    /\ v_run' = 2
    /\ v_calls' = v_calls \o
          <<[cb |-> "status_callback", msg |-> "Continuing with package upgrade..."],
            UpgCommand(2)>>
          \o Finalize(-1, "Error starting second upgrade step", "main")
    /\ UNCHANGED <<v_pc, v_helper, v_thread, v_read, v_nlines, v_collected>>

\* Main thread: on_finished of the second run.
UpgMainSecondDone ==
    /\ UpgradeFrame
    /\ v_q # <<>>
    /\ Head(v_q).fn = "_second_run_done"
    /\ v_q' = Tail(v_q)
    /\ v_calls' = v_calls \o
          Finalize(Head(v_q).arg, "System upgrade completed successfully", "main")
    /\ UNCHANGED <<v_pc, v_helper, v_run, v_thread, v_read, v_nlines, v_collected>>

UpgradeNext ==
    \/ StartUpgrade
    \/ UpgFirstNoHelper
    \/ UpgFirstStarts
    \/ UpgFirstRaises
    \/ UpgThreadLine
    \/ UpgThreadFinish
    \/ UpgThreadExcept
    \/ UpgMainLine
    \/ UpgMainFirstRunDone
    \/ UpgMainSecondStarts
    \/ UpgMainSecondRaises
    \/ UpgMainSecondDone

-----------------------------------------------------------------------------
(* Claims about the upgrade, checked under SpecUpgrade *)

UpgCallsOf(name) == {i \in 1..Len(v_calls) : v_calls[i].cb = name}

UpgCommandsOf(n) == {i \in UpgCallsOf("command_runner") : v_calls[i].run = n}

\* start_upgrade has returned and nothing of the upgrade is left to run
UpgSettled ==
    /\ v_pc = "returned"
    /\ v_thread # "running"
    /\ v_q = <<>>

\* C12: on_finish_callback is invoked exactly once, after the last command of
\* the upgrade has finished or failed to start; post_action_callback is
\* invoked at most once, only after on_finish_callback and only when the
\* final return code is 0.
C12_FinishOnceAfterLastCommand ==
    /\ Cardinality(UpgCallsOf("on_finish_callback")) <= 1
    /\ Cardinality(UpgCallsOf("post_action_callback")) <= 1
    /\ \A j \in UpgCallsOf("on_finish_callback") :
         /\ v_thread # "running"
         /\ \A i \in UpgCallsOf("command_runner") : i < j
         /\ \A i \in 1..Len(v_q) : v_q[i].fn \in {"_on_line_first_run", "log_callback"}
    /\ \A p \in UpgCallsOf("post_action_callback") :
         \E j \in UpgCallsOf("on_finish_callback") : j < p /\ v_calls[j].rc = 0
    /\ UpgSettled => Cardinality(UpgCallsOf("on_finish_callback")) = 1

\* an upgrade that needed the second run and succeeded, and one that failed
C12_Witness ==
    /\ UpgSettled
    /\ UpgCommandsOf(2) # {}
    /\ UpgCallsOf("post_action_callback") # {}
    /\ Len(v_collected) = MaxLines

\* the first run's output had a line with the finalizer text
FinalizerSeen == \E i \in 1..Len(v_read) : v_read[i] = "finalizer"

FirstExitedZero ==
    \E d \in UpgCallsOf("_on_first_run_done") : v_calls[d].rc = 0

SecondRunPending ==
    \E i \in 1..Len(v_q) : v_q[i].fn = "_run_second_upgrade"

\* C14: the second command is started if and only if the first exited with
\* code 0 and a line of its output contains the finalizer text; the decision
\* is taken after every output line of the first run has been collected,
\* under every interleaving of reader thread and main thread; at most one
\* second run is started.
C14_SecondRunDecision ==
    /\ Cardinality(UpgCommandsOf(2)) <= 1
    /\ \A d \in UpgCallsOf("_on_first_run_done") :
         /\ v_thread # "running" \/ v_run = 2
         /\ SelectSeq(v_calls[d].collected, LAMBDA l : l # UpgradeErrorLine) = v_read
    /\ UpgCommandsOf(2) # {} => (FirstExitedZero /\ FinalizerSeen)
    /\ (FirstExitedZero /\ FinalizerSeen) =>
          (UpgCommandsOf(2) # {} \/ SecondRunPending)

\* the decision was taken on two collected lines, the finalizer text in the
\* last one, and the second run was started
C14_Witness ==
    /\ UpgCommandsOf(2) # {}
    /\ v_read = <<"plain", "finalizer">>

\* C15: on_finish_callback always runs on the main thread, on every path,
\* including the ones where starting the first or the second command raises.
C15_FinishOnMainThread ==
    \A j \in UpgCallsOf("on_finish_callback") : v_calls[j].thread = "main"

-----------------------------------------------------------------------------
(* PackageSearcher.run_search_core *)

JsonWs == {" ", "\n"}
JsonDigits == {"0", "1", "2", "3", "4", "5", "6", "7", "8", "9"}

\* str.strip()
Strip(t) ==
    LET keep == {i \in 1..Len(t) : t[i] \notin JsonWs}
    IN IF keep = {} THEN <<>>
       ELSE SubSeq(t, CHOOSE i \in keep : \A j \in keep : i <= j,
                      CHOOSE i \in keep : \A j \in keep : i >= j)

\* the first position from i on that holds no whitespace, Len(t) + 1 if none
SkipWs(t, i) ==
    LET rest == {j \in i..Len(t) : t[j] \notin JsonWs}
    IN IF rest = {} THEN Len(t) + 1 ELSE CHOOSE j \in rest : \A k \in rest : j <= k

JsonNull == [t |-> "null", v |-> <<>>]
JsonStr(chars) == [t |-> "str", v |-> chars]
JsonNum(chars) == [t |-> "num", v |-> chars]
JsonArr(items) == [t |-> "arr", v |-> items]
JsonObj(pairs) == [t |-> "obj", v |-> pairs]
JsonPair(key, val) == [k |-> key, val |-> val]

JsonFail == [ok |-> FALSE, val |-> JsonNull, next |-> 0]
JsonOk(val, next) == [ok |-> TRUE, val |-> val, next |-> next]

\* a string: everything up to the next quote (the inputs hold no backslash)
JsonString(t, i) ==
    LET ends == {j \in i..Len(t) : t[j] = "\""}
    IN IF ends = {} THEN JsonFail
       ELSE LET j == CHOOSE e \in ends : \A k \in ends : e <= k
            IN JsonOk(JsonStr(SubSeq(t, i, j - 1)), j + 1)

\* a number: "0", or a run of digits that does not start with "0"
JsonNumber(t, i) ==
    LET stops == {j \in (i + 1)..(Len(t) + 1) : j = Len(t) + 1 \/ t[j] \notin JsonDigits}
        j == IF t[i] = "0" THEN i + 1
             ELSE CHOOSE s \in stops : \A k \in stops : s <= k
    IN JsonOk(JsonNum(SubSeq(t, i, j - 1)), j)

RECURSIVE JsonValue(_, _)
RECURSIVE JsonElements(_, _, _, _)
RECURSIVE JsonMembers(_, _, _, _)

\* the elements of an array after "[" or ","
JsonElements(t, i0, acc, first) ==
    LET i == SkipWs(t, i0) IN
    IF i > Len(t) THEN JsonFail
    ELSE IF first /\ t[i] = "]" THEN JsonOk(JsonArr(acc), i + 1)
    ELSE LET e == JsonValue(t, i) IN
         IF ~e.ok THEN JsonFail
         ELSE LET j == SkipWs(t, e.next) IN
              IF j > Len(t) THEN JsonFail
              ELSE IF t[j] = "," THEN JsonElements(t, j + 1, Append(acc, e.val), FALSE)
              ELSE IF t[j] = "]" THEN JsonOk(JsonArr(Append(acc, e.val)), j + 1)
              ELSE JsonFail

\* the members of an object after "{" or ","
JsonMembers(t, i0, acc, first) ==
    LET i == SkipWs(t, i0) IN
    IF i > Len(t) THEN JsonFail
    ELSE IF first /\ t[i] = "}" THEN JsonOk(JsonObj(acc), i + 1)
    ELSE IF t[i] # "\"" THEN JsonFail
    ELSE LET key == JsonString(t, i + 1) IN
         IF ~key.ok THEN JsonFail
         ELSE LET c == SkipWs(t, key.next) IN
              IF c > Len(t) \/ t[c] # ":" THEN JsonFail
              ELSE LET e == JsonValue(t, c + 1) IN
                   IF ~e.ok THEN JsonFail
                   ELSE LET j == SkipWs(t, e.next)
                            pairs == Append(acc, JsonPair(key.val.v, e.val))
                        IN IF j > Len(t) THEN JsonFail
                           ELSE IF t[j] = "," THEN JsonMembers(t, j + 1, pairs, FALSE)
                           ELSE IF t[j] = "}" THEN JsonOk(JsonObj(pairs), j + 1)
                           ELSE JsonFail

JsonValue(t, i0) ==
    LET i == SkipWs(t, i0) IN
    IF i > Len(t) THEN JsonFail
    ELSE IF t[i] = "{" THEN JsonMembers(t, i + 1, <<>>, TRUE)
    ELSE IF t[i] = "[" THEN JsonElements(t, i + 1, <<>>, TRUE)
    ELSE IF t[i] = "\"" THEN JsonString(t, i + 1)
    ELSE IF t[i] \in JsonDigits THEN JsonNumber(t, i)
    ELSE IF i + 3 <= Len(t) /\ SubSeq(t, i, i + 3) = <<"n", "u", "l", "l">>
         THEN JsonOk(JsonNull, i + 4)
    ELSE JsonFail

\* json.loads(text): the value, or JsonFail for JSONDecodeError
JsonLoads(t) ==
    LET r == JsonValue(t, 1) IN
    IF r.ok /\ SkipWs(t, r.next) > Len(t) THEN r ELSE JsonFail

PackagesKey == <<"p", "a", "c", "k", "a", "g", "e", "s">>

\* data.get("packages") if isinstance(data, dict) else None; None is JsonNull
GetPackages(data) ==
    IF data.t # "obj" THEN JsonNull
    ELSE LET hits == {i \in 1..Len(data.v) : data.v[i].k = PackagesKey}
         IN IF hits = {} THEN JsonNull
            ELSE data.v[CHOOSE i \in hits : \A j \in hits : i >= j].val

SearchError == [error |-> "Error executing the search command"]
InvalidJson == [error |-> "Invalid JSON output"]
NoPackages == [packages |-> JsonArr(<<>>)]

\* Mutation: a JSON document without a package list is reported as an error.
SearchCoreResult_Strict(res) ==
    IF res.raised \/ res.returncode # 0 THEN SearchError
    ELSE IF ~JsonLoads(Strip(res.stdout)).ok THEN InvalidJson
    ELSE LET packages == GetPackages(JsonLoads(Strip(res.stdout)).val)
         IN IF packages = JsonNull THEN SearchError ELSE [packages |-> packages]

\* The body of run_search_core from the outcome of command_runner_sync on.
SearchCoreResult(res) ==
    IF res.raised THEN SearchError
    ELSE IF res.returncode # 0 THEN SearchError
    ELSE LET output == Strip(res.stdout) IN
         IF output = <<>> THEN NoPackages
         ELSE LET data == JsonLoads(output) IN
              IF ~data.ok THEN InvalidJson
              ELSE LET packages == GetPackages(data.val)
                   IN IF packages = JsonNull THEN NoPackages
                      ELSE [packages |-> packages]

(* What the search command can print. *)

RECURSIVE JsonDumps(_)
RECURSIVE JsonDumpsItems(_, _)

\* the text of the items of an array or the pairs of an object, comma-separated
JsonDumpsItems(items, isObj) ==
    IF items = <<>> THEN <<>>
    ELSE LET one == IF isObj
                    THEN <<"\"">> \o Head(items).k \o <<"\"", ":", " ">>
                           \o JsonDumps(Head(items).val)
                    ELSE JsonDumps(Head(items))
         IN one \o (IF Len(items) = 1 THEN <<>>
                    ELSE <<",", " ">> \o JsonDumpsItems(Tail(items), isObj))

\* the JSON text of a value
JsonDumps(val) ==
    IF val.t = "null" THEN <<"n", "u", "l", "l">>
    ELSE IF val.t = "str" THEN <<"\"">> \o val.v \o <<"\"">>
    ELSE IF val.t = "num" THEN val.v
    ELSE IF val.t = "arr" THEN <<"[">> \o JsonDumpsItems(val.v, FALSE) \o <<"]">>
    ELSE <<"{">> \o JsonDumpsItems(val.v, TRUE) \o <<"}">>

\* entries of a package list
PackageEntries ==
    { JsonObj(<<JsonPair(<<"n", "a", "m", "e">>, JsonStr(<<"v", "i", "m">>))>>),
      JsonObj(<<JsonPair(<<"n", "a", "m", "e">>, JsonStr(<<"X">>)),
                JsonPair(<<"i", "d">>, JsonNum(<<"1", "0">>))>>) }

\* documents with a package list
DocsWithPackages ==
    { JsonObj(<<JsonPair(PackagesKey, JsonArr(ps))>>) : ps \in SeqsUpTo(PackageEntries, MaxPkgs) }
    \cup { JsonObj(<<JsonPair(<<"c", "o", "u", "n", "t">>, JsonNum(<<"1">>)),
                     JsonPair(PackagesKey, JsonArr(<<e>>))>>) : e \in PackageEntries }

\* documents that carry no package list
DocsWithoutPackages ==
    { JsonObj(<<>>),
      JsonObj(<<JsonPair(PackagesKey, JsonNull)>>),
      JsonObj(<<JsonPair(<<"c", "o", "u", "n", "t">>, JsonNum(<<"0">>))>>),
      JsonArr(<<>>),
      JsonArr(<<JsonStr(PackagesKey)>>),
      JsonNull }

\* text that is not JSON
NotJson ==
    { <<"{">>,
      <<"{", "\"">> \o PackagesKey \o <<"\"", ":", " ", "[">>,
      <<"[", "1", ",", "]">>,
      <<"{", "}", " ", "x">>,
      <<"E", "r", "r", "o", "r">> }

Blank == { <<>>, <<"\n">>, <<" ", "\n">> }

SearchInputs ==
    { [kind |-> "json", doc |-> d, pad |-> p] :
          d \in DocsWithPackages \cup DocsWithoutPackages, p \in BOOLEAN }
    \cup { [kind |-> "text", doc |-> JsonStr(t), pad |-> FALSE] : t \in NotJson \cup Blank }

\* the stdout for an input
SearchStdout(in) ==
    IF in.kind = "text" THEN in.doc.v
    ELSE IF in.pad THEN <<" ">> \o JsonDumps(in.doc) \o <<"\n">>
    ELSE JsonDumps(in.doc)

NoInput == [kind |-> "none", doc |-> JsonNull, pad |-> FALSE]
NoRes == [raised |-> FALSE, returncode |-> -1, stdout |-> <<>>]
NoReturn == [pending |-> TRUE]

SearchCoreInit ==
    /\ n_pc = "idle"
    /\ n_input = NoInput
    /\ n_res = NoRes
    /\ n_result = NoReturn

\* command_runner_sync(search_command, require_root=True) returns.
SearchCommandReturns ==
    /\ SearchCoreFrame
    /\ n_pc = "idle"
    /\ \E in \in SearchInputs, rc \in ExitCodes :
         /\ n_input' = in
         /\ n_res' = [raised |-> FALSE, returncode |-> rc, stdout |-> SearchStdout(in)]
    /\ n_pc' = "ran"
    /\ UNCHANGED n_result

\* command_runner_sync raises (no elevation helper, or the OS refuses).
SearchCommandRaises ==
    /\ SearchCoreFrame
    /\ n_pc = "idle"
    /\ n_res' = [raised |-> TRUE, returncode |-> -1, stdout |-> <<>>]
    /\ n_pc' = "ran"
    /\ UNCHANGED <<n_input, n_result>>

\* run_search_core returns.
SearchCoreReturns ==
    /\ SearchCoreFrame
    /\ n_pc = "ran"
    /\ n_result' = SearchCoreResult(n_res)
    /\ n_pc' = "returned"
    /\ UNCHANGED <<n_input, n_res>>

SearchCoreNext ==
    \/ SearchCommandReturns
    \/ SearchCommandRaises
    \/ SearchCoreReturns

-----------------------------------------------------------------------------
(* Claims about run_search_core, checked under SpecSearchCore *)

\* C13: run_search_core always returns a dict with exactly one of the keys
\* "error" and "packages": "error" when the command exits non-zero, when
\* running it raises or when its output is not valid JSON; an empty package
\* list when the output is empty or carries no package list; otherwise the
\* package list of the output.
C13_ErrorOrPackages ==
    n_pc = "returned" =>
      /\ DOMAIN n_result \in {{"error"}, {"packages"}}
      /\ IF n_res.raised \/ n_res.returncode # 0 THEN n_result = SearchError
         ELSE IF n_input.kind = "text" /\ n_input.doc.v \in NotJson
              THEN n_result = InvalidJson
         ELSE IF n_input.kind = "text" \/ n_input.doc \in DocsWithoutPackages
              THEN n_result = NoPackages
         ELSE n_result = [packages |-> Last(n_input.doc.v).val]

\* a search that printed a padded document with two packages
C13_Witness ==
    /\ n_pc = "returned"
    /\ n_input.kind = "json"
    /\ n_input.pad
    /\ DOMAIN n_result = {"packages"}
    /\ Len(n_result.packages.v) = MaxPkgs

-----------------------------------------------------------------------------
(* The curses TUI: main loop, status line and the luet operations           *)
(* (repository update, upgrade, system check, cache cleanup, install /      *)
(* uninstall, search) with their worker threads.  Log lines are left out:   *)
(* append_to_log does not touch the status.                                 *)

Ready == "Ready"
RepositoriesUpdated == "Repositories updated"
FoundResults == "Found {} results matching '{}'"
UpgradeCompleted == "System upgrade completed successfully"

\* an entry of Scheduler.q; `final` marks the call that ends its operation
Item(fn, arg, final) == [fn |-> fn, arg |-> arg, final |-> final]

\* self.scheduler.schedule(self.set_status, msg, error)
SetStatusItem(msg, error, final) ==
    Item("set_status", [msg |-> msg, error |-> error], final)

\* a lambda that only schedules another call: lambda x: scheduler.schedule(f, x)
Relay(item) == Item("relay", item, FALSE)

Worker(op, pc) == [op |-> op, pc |-> pc]

\* LuetTUI.run: is_busy
OpsBusy == w_status # Ready /\ ~w_error

\* the state of the TUI that a scheduled call or a handler can change
OpsState ==
    [status |-> w_status, error |-> w_error, q |-> <<>>, threads |-> <<>>,
     drawn |-> w_drawn, started |-> 0, ended |-> 0]

\* set_status(msg, error)
WithStatus(s, msg, error) == [s EXCEPT !.status = msg, !.error = error]

\* scheduler.schedule(...) of the given calls
WithScheduled(s, items) == [s EXCEPT !.q = @ \o items]

\* an operation's handler: set_status(busy text), draw(), worker thread started
WithOperation(s, busyText, worker) ==
    [s EXCEPT !.status = busyText, !.error = FALSE, !.drawn = busyText,
              !.threads = Append(@, worker), !.started = @ + 1]

\* the call that ends an operation has run
WithEnd(s) == [s EXCEPT !.ended = @ + 1]

\* SystemUpgrader._finalize(returncode, message) with the TUI's on_finish
\* and post_action_callback (which schedules on_post_action)
UpgFinalize(s, returncode) ==
    IF returncode = 0
    THEN WithScheduled(WithStatus(s, UpgradeCompleted, FALSE),
                       <<Item("on_post_action", 0, TRUE)>>)
    ELSE WithEnd(WithStatus(s, "Error during system upgrade", TRUE))

\* LuetTUI.on_search_finished(result)
OnSearchFinished(s, result) ==
    IF result = "error"
    THEN WithEnd(WithStatus(s, "Error executing the search command", TRUE))
    ELSE WithEnd(WithScheduled(WithStatus(s, FoundResults, FALSE),
                               <<SetStatusItem(Ready, FALSE, FALSE)>>))

\* What running one scheduled call on the main thread does.  `raises` says
\* whether the runner raises when _run_second_upgrade hands it the command.
RunItem(item, raises) ==
    LET s == IF item.final /\ item.fn \in {"set_status", "on_finish", "on_post_action"}
             THEN WithEnd(OpsState) ELSE OpsState
    IN CASE item.fn = "relay" -> WithScheduled(s, <<item.arg>>)
         [] item.fn = "append_to_log" -> s
         [] item.fn = "set_status" -> WithStatus(s, item.arg.msg, item.arg.error)
         \* RepositoryUpdater.run_repo_update.on_done(returncode)
         [] item.fn = "repo_on_done" ->
              WithScheduled(s,
                <<Relay(Item(IF item.arg = 0 THEN "on_success" ELSE "on_error", 0, FALSE)),
                  Relay(Item("on_finish", 0, TRUE))>>)
         \* run_update_repositories: on_success, on_error, on_finish
         [] item.fn = "on_success" -> WithStatus(s, RepositoriesUpdated, FALSE)
         [] item.fn = "on_error" -> WithStatus(s, "Error updating repositories", TRUE)
         [] item.fn = "on_finish" ->
              IF ~w_error THEN WithScheduled(s, <<SetStatusItem(Ready, FALSE, FALSE)>>)
              ELSE s
         \* SystemUpgrader._on_first_run_done(returncode)
         [] item.fn = "_on_first_run_done" ->
              IF item.arg.rc # 0 THEN UpgFinalize(s, item.arg.rc)
              ELSE IF item.arg.needs
                   THEN WithScheduled(s, <<Item("_run_second_upgrade", 0, FALSE)>>)
                   ELSE UpgFinalize(s, 0)
         \* SystemUpgrader._run_second_upgrade
         [] item.fn = "_run_second_upgrade" ->
              LET t == WithScheduled(s,
                          <<Item("on_status", "Continuing with package upgrade...", FALSE)>>)
              IN IF raises THEN UpgFinalize(t, -1)
                 ELSE [t EXCEPT !.threads = Append(@, Worker("upgrade", "second"))]
         [] item.fn = "_second_run_done" -> UpgFinalize(s, item.arg)
         \* run_full_upgrade: on_status, on_post_action
         [] item.fn = "on_status" -> WithStatus(s, item.arg, FALSE)
         [] item.fn = "on_post_action" ->
              IF ~w_error THEN WithStatus(s, Ready, FALSE) ELSE s
         \* run_clear_cache.on_done(returncode)
         [] item.fn = "cache_on_done" ->
              IF item.arg = 0 THEN WithEnd(WithStatus(s, Ready, FALSE))
              ELSE WithEnd(WithStatus(s, "Error clearing Luet cache", TRUE))
         \* do_install_uninstall_selected.on_done(returncode)
         [] item.fn = "pkg_on_done" ->
              IF item.arg # 0
              THEN WithEnd(WithStatus(s, "Error installing/uninstalling", TRUE))
              ELSE IF w_query
                   THEN WithOperation(WithEnd(s), "Searching for {}...",
                                      Worker("search", "run"))
                   ELSE WithEnd(WithStatus(s, Ready, FALSE))
         [] item.fn = "on_search_finished" -> OnSearchFinished(s, item.arg)

\* The next state after the main thread did what `r` describes.
OpsApply(r, rest) ==
    /\ w_status' = r.status
    /\ w_error' = r.error
    /\ w_drawn' = r.drawn
    /\ w_q' = rest \o r.q
    /\ w_threads' = w_threads \o r.threads
    /\ w_inflight' = w_inflight + r.started - r.ended

OpsInit ==
    /\ w_pc = "drain"
    /\ w_processed = 0
    /\ w_status = Ready
    /\ w_error = FALSE
    /\ w_drawn = Ready
    /\ w_q = <<>>
    /\ w_threads = <<>>
    /\ w_inflight = 0
    /\ w_focus = "list"
    /\ w_query = FALSE
    /\ w_menu = FALSE

\* Scheduler.drain: one call is taken from the queue and run.
OpsDrainRun ==
    /\ OpsFrame
    /\ w_pc = "drain"
    /\ w_processed < DefaultMaxItems
    /\ w_q # <<>>
    /\ \E raises \in BOOLEAN :
         /\ raises => Head(w_q).fn = "_run_second_upgrade"
         /\ OpsApply(RunItem(Head(w_q), raises), Tail(w_q))
    /\ w_processed' = w_processed + 1
    /\ UNCHANGED <<w_pc, w_focus, w_query, w_menu>>

\* Scheduler.drain returns (queue empty, or max_items calls run); the loop
\* goes on to getch().
OpsDrainEnd ==
    /\ OpsFrame
    /\ w_pc = "drain"
    /\ w_q = <<>> \/ w_processed >= DefaultMaxItems
    /\ w_pc' = "input"
    /\ w_processed' = 0
    /\ UNCHANGED <<w_status, w_error, w_drawn, w_q, w_threads, w_inflight,
                   w_focus, w_query, w_menu>>

\* run(): getch() returns -1.
OpsNoKey ==
    /\ OpsFrame
    /\ w_pc = "input"
    /\ w_pc' = "draw"
    /\ UNCHANGED <<w_processed, w_status, w_error, w_drawn, w_q, w_threads,
                   w_inflight, w_focus, w_query, w_menu>>

\* run(): a key while is_busy: Esc / F9 close an open menu, every other key
\* is ignored; draw() and on to the next cycle.
OpsKeyWhileBusy ==
    /\ OpsFrame
    /\ w_pc = "input"
    /\ OpsBusy
    /\ w_menu' \in {w_menu, FALSE}
    /\ w_drawn' = w_status
    /\ w_pc' = "drain"
    /\ UNCHANGED <<w_processed, w_status, w_error, w_q, w_threads, w_inflight,
                   w_focus, w_query>>

\* the state after "any key clears an error" (not for F9 and Esc)
OpsCleared == WithStatus(OpsState, IF w_error THEN Ready ELSE w_status, FALSE)

\* run(): F9 while not busy opens the menu and moves the focus to the list;
\* F9 or Esc in the open menu closes it; an error status stays.
OpsKeyMenu ==
    /\ OpsFrame
    /\ w_pc = "input"
    /\ ~OpsBusy
    /\ w_menu' = ~w_menu
    /\ w_focus' = "list"
    /\ w_pc' = "draw"
    /\ UNCHANGED <<w_processed, w_status, w_error, w_drawn, w_q, w_threads,
                   w_inflight, w_query>>

\* run(): a key that starts nothing: arrows, 's', editing the query,
\* a declined confirm_yes_no, a menu item without operation.
OpsKeyOther ==
    /\ OpsFrame
    /\ w_pc = "input"
    /\ ~OpsBusy
    /\ OpsApply(OpsCleared, w_q)
    /\ \/ /\ w_menu
          /\ w_menu' \in BOOLEAN
          /\ UNCHANGED <<w_focus, w_query>>
       \/ /\ ~w_menu
          /\ w_menu' = w_menu
          /\ w_focus' \in {"list", "search"}
          /\ w_query' \in (IF w_focus = "search" THEN BOOLEAN ELSE {w_query})
    /\ w_pc' = "draw"
    /\ UNCHANGED w_processed

\* the busy text and the worker of the operations a menu item starts
MenuOperations ==
    { [text |-> "Updating repositories...", worker |-> Worker("update", "run")],
      [text |-> "Performing full system upgrade...", worker |-> Worker("upgrade", "first")],
      [text |-> "Checking system for missing files...", worker |-> Worker("check", "run")],
      [text |-> "Clearing Luet cache...", worker |-> Worker("cache", "run")] }

\* threads the model follows at once
MaxThreads == 1

\* Menu.handle_input: Enter on an item: run_update_repositories,
\* run_full_upgrade, run_check_system or run_clear_cache (confirmed).
OpsKeyMenuActivate ==
    /\ OpsFrame
    /\ w_pc = "input"
    /\ ~OpsBusy
    /\ w_menu
    /\ Len(w_threads) < MaxThreads
    /\ \E o \in MenuOperations :
         OpsApply(WithOperation(OpsCleared, o.text, o.worker), w_q)
    /\ w_menu' = FALSE
    /\ w_pc' = "draw"
    /\ UNCHANGED <<w_processed, w_focus, w_query>>

\* run(): Enter in the search box with a query: run_search.
OpsKeyEnterSearch ==
    /\ OpsFrame
    /\ w_pc = "input"
    /\ ~OpsBusy
    /\ ~w_menu
    /\ w_focus = "search"
    /\ w_query
    /\ Len(w_threads) < MaxThreads
    /\ OpsApply(WithOperation(OpsCleared, "Searching for {}...", Worker("search", "run")), w_q)
    /\ w_focus' = "list"
    /\ w_pc' = "draw"
    /\ UNCHANGED <<w_processed, w_query, w_menu>>

\* run(): 'i' / space on a row that is not protected, confirmed:
\* do_install_uninstall_selected starts the command.
OpsKeyInstall ==
    /\ OpsFrame
    /\ w_pc = "input"
    /\ ~OpsBusy
    /\ ~w_menu
    /\ w_focus = "list"
    /\ Len(w_threads) < MaxThreads
    /\ \E text \in {"Installing {}...", "Uninstalling {}..."} :
         OpsApply(WithOperation(OpsCleared, text, Worker("package", "run")), w_q)
    /\ w_pc' = "draw"
    /\ UNCHANGED <<w_processed, w_focus, w_query, w_menu>>

\* run(): self.draw() at the end of a cycle.
OpsDraw ==
    /\ OpsFrame
    /\ w_pc = "draw"
    /\ w_drawn' = w_status
    /\ w_pc' = "drain"
    /\ UNCHANGED <<w_processed, w_status, w_error, w_q, w_threads, w_inflight,
                   w_focus, w_query, w_menu>>

RemoveAt(seq, i) == SubSeq(seq, 1, i - 1) \o SubSeq(seq, i + 1, Len(seq))

\* return codes a command can end with: success and failure
OpsReturnCodes == {0, 1}

\* calls waiting in the Scheduler's queue when a worker thread adds its own
MaxQueue == 2

\* A worker thread schedules calls and ends, or goes on at `pc`.
OpsThreadStep(i, items, pc) ==
    /\ Len(w_q) <= MaxQueue
    /\ w_q' = w_q \o items
    /\ w_threads' = IF pc = "end" THEN RemoveAt(w_threads, i)
                    ELSE [w_threads EXCEPT ![i].pc = pc]
    /\ UNCHANGED <<w_pc, w_processed, w_status, w_error, w_drawn, w_inflight,
                   w_focus, w_query, w_menu>>

\* The thread of run_update_repositories: run_repo_update ends with the
\* runner's on_finished = on_done scheduled, or in its except branch.
OpsUpdateThread ==
    /\ OpsFrame
    /\ \E i \in 1..Len(w_threads), rc \in OpsReturnCodes, raises \in BOOLEAN :
         /\ w_threads[i] = Worker("update", "run")
         /\ raises => rc = -1
         /\ OpsThreadStep(i,
               IF raises
               THEN <<Relay(Item("on_error", 0, FALSE)), Relay(Item("on_finish", 0, TRUE))>>
               ELSE <<Item("repo_on_done", rc, FALSE)>>,
               "end")

\* start_worker of run_full_upgrade: the first command ends and the runner
\* schedules _on_first_run_done.
OpsUpgradeFirstThread ==
    /\ OpsFrame
    /\ \E i \in 1..Len(w_threads), rc \in OpsReturnCodes, needs \in BOOLEAN :
         /\ w_threads[i] = Worker("upgrade", "first")
         /\ OpsThreadStep(i,
               <<Item("_on_first_run_done", [rc |-> rc, needs |-> needs], FALSE)>>,
               "end")

\* start_worker of run_full_upgrade: the runner raises and start_upgrade
\* calls _finalize, and with it on_finish, in the worker thread.
OpsUpgradeFirstRaises ==
    /\ OpsFrame
    /\ \E i \in 1..Len(w_threads) :
         /\ w_threads[i] = Worker("upgrade", "first")
         /\ LET r == UpgFinalize(OpsState, -1)
            IN /\ w_status' = r.status
               /\ w_error' = r.error
               /\ w_inflight' = w_inflight - r.ended
         /\ w_threads' = RemoveAt(w_threads, i)
    /\ UNCHANGED <<w_pc, w_processed, w_drawn, w_q, w_focus, w_query, w_menu>>

\* The runner's thread of the second upgrade command ends.
OpsUpgradeSecondThread ==
    /\ OpsFrame
    /\ \E i \in 1..Len(w_threads), rc \in OpsReturnCodes :
         /\ w_threads[i] = Worker("upgrade", "second")
         /\ OpsThreadStep(i, <<Item("_second_run_done", rc, FALSE)>>, "end")

\* _do_check_system up to its first terminal callback: on_exit_status with
\* a failure text (then "Ready" is scheduled too), on_exit_status("Ready"),
\* or on_reinstall_finish(success) after a repair.
OpsCheckThread ==
    /\ OpsFrame
    /\ \E i \in 1..Len(w_threads),
          outcome \in {"failed", "clean", "repaired", "repair failed"} :
         /\ w_threads[i] = Worker("check", "run")
         /\ CASE outcome = "failed" ->
                   OpsThreadStep(i,
                     <<SetStatusItem("luet oscheck failed with return code {}", FALSE, FALSE),
                       SetStatusItem(Ready, FALSE, TRUE)>>, "end")
              [] outcome = "clean" ->
                   OpsThreadStep(i, <<SetStatusItem(Ready, FALSE, TRUE)>>, "end")
              [] outcome = "repaired" ->
                   OpsThreadStep(i,
                     <<Item("append_to_log", "System repair finished successfully.", FALSE)>>,
                     "finally")
              [] outcome = "repair failed" ->
                   OpsThreadStep(i,
                     <<Item("append_to_log", "Could not repair some packages", FALSE),
                       SetStatusItem("Could not repair some packages", TRUE, FALSE)>>,
                     "finally")

\* _do_check_system after on_reinstall_finish_callback: the finally block
\* calls on_exit_status("Ready").
OpsCheckThreadExit ==
    /\ OpsFrame
    /\ \E i \in 1..Len(w_threads) :
         /\ w_threads[i] = Worker("check", "finally")
         /\ OpsThreadStep(i, <<SetStatusItem(Ready, FALSE, TRUE)>>, "end")

\* The runner's thread of luet cleanup ends: on_finished is the lambda that
\* schedules on_done.
OpsCacheThread ==
    /\ OpsFrame
    /\ \E i \in 1..Len(w_threads), rc \in OpsReturnCodes :
         /\ w_threads[i] = Worker("cache", "run")
         /\ OpsThreadStep(i, <<Relay(Item("cache_on_done", rc, FALSE))>>, "end")

\* The runner's thread of an install or uninstall ends.
OpsPackageThread ==
    /\ OpsFrame
    /\ \E i \in 1..Len(w_threads), rc \in OpsReturnCodes :
         /\ w_threads[i] = Worker("package", "run")
         /\ OpsThreadStep(i, <<Relay(Item("pkg_on_done", rc, FALSE))>>, "end")

\* run_search.worker: run_search_core returned, on_search_finished is scheduled.
OpsSearchThread ==
    /\ OpsFrame
    /\ \E i \in 1..Len(w_threads), result \in {"error", "packages"} :
         /\ w_threads[i] = Worker("search", "run")
         /\ OpsThreadStep(i, <<Item("on_search_finished", result, FALSE)>>, "end")

OpsNext ==
    \/ OpsDrainRun
    \/ OpsDrainEnd
    \/ OpsNoKey
    \/ OpsKeyWhileBusy
    \/ OpsKeyMenu
    \/ OpsKeyOther
    \/ OpsKeyMenuActivate
    \/ OpsKeyEnterSearch
    \/ OpsKeyInstall
    \/ OpsDraw
    \/ OpsUpdateThread
    \/ OpsUpgradeFirstThread
    \/ OpsUpgradeFirstRaises
    \/ OpsUpgradeSecondThread
    \/ OpsCheckThread
    \/ OpsCheckThreadExit
    \/ OpsCacheThread
    \/ OpsPackageThread
    \/ OpsSearchThread

-----------------------------------------------------------------------------
(* Claims about the TUI's operations, checked under SpecTuiOps *)

\* C19: when a handler sets a result status ("Repositories updated",
\* "Found N results ...") and schedules set_status("Ready"), the main loop
\* draws the screen at least once with the result status before the status
\* becomes "Ready".
C19_ResultDrawnBeforeReady ==
    [][(w_status \in {RepositoriesUpdated, FoundResults} /\ w_status' = Ready)
          => w_drawn = w_status]_vars

-----------------------------------------------------------------------------
(* Scheduler and the main loop that drains it *)

\* What a callback does when it is called: return, raise an Exception, or
\* schedule a further callback (as on_finish schedules set_status).
CallbackKinds == {"returns", "raises", "schedules"}

NewCallback(kind) == [id |-> s_next + 1, kind |-> kind]

SchedInit ==
    /\ q = <<>>
    /\ s_enq = <<>>
    /\ s_ran = <<>>
    /\ s_pc = "loop"
    /\ s_max = DefaultMaxItems
    /\ s_processed = 0
    /\ s_caught = 0
    /\ s_running = TRUE
    /\ s_next = 0

\* Scheduler.schedule called by a worker thread, at any moment the process lives.
WorkerSchedule ==
    /\ SchedFrame
    /\ s_pc # "exited"
    /\ s_next < MaxCallbacks
    /\ \E kind \in CallbackKinds :
        /\ q' = Append(q, NewCallback(kind))
        /\ s_enq' = Append(s_enq, NewCallback(kind))
    /\ s_next' = s_next + 1
    /\ UNCHANGED <<s_ran, s_pc, s_max, s_processed, s_caught, s_running>>

\* LuetTUI.run: `while self.running: self.scheduler.drain()` enters drain.
DrainBegin ==
    /\ SchedFrame
    /\ s_pc = "loop"
    /\ s_running
    /\ s_max' \in (1..MaxItemsArg) \cup {DefaultMaxItems}
    /\ s_processed' = 0
    /\ s_pc' = "drain"
    /\ UNCHANGED <<q, s_enq, s_ran, s_caught, s_running, s_next>>

\* The queue after the callback `cb` has run on top of queue `rest`.
AfterCall(cb, rest) ==
    IF cb.kind = "schedules" /\ s_next < MaxCallbacks
    THEN Append(rest, NewCallback("returns"))
    ELSE rest

\* Mutation: drain's loop ignores max_items.
DrainMayRun_NoLimit == q # <<>>

\* drain: `while processed < max_items` and get_nowait() finds an item.
DrainMayRun == s_processed < s_max /\ q # <<>>

\* Mutation: an exception of a callback escapes drain and ends the loop.
DrainCatches_Not(cb) == cb.kind # "raises"

\* drain: `except Exception: traceback.print_exc()` keeps the loop going.
DrainCatches(cb) == TRUE

\* drain: one iteration that gets a callback and calls it.
DrainRun ==
    /\ SchedFrame
    /\ s_pc = "drain"
    /\ DrainMayRun
    /\ LET cb == Head(q) IN
        /\ s_ran' = Append(s_ran, [id |-> cb.id, kind |-> cb.kind, where |-> s_pc])
        /\ q' = AfterCall(cb, Tail(q))
        /\ s_enq' = IF cb.kind = "schedules" /\ s_next < MaxCallbacks
                    THEN Append(s_enq, NewCallback("returns")) ELSE s_enq
        /\ s_next' = IF cb.kind = "schedules" /\ s_next < MaxCallbacks
                     THEN s_next + 1 ELSE s_next
        /\ s_caught' = IF cb.kind = "raises" THEN s_caught + 1 ELSE s_caught
        /\ IF DrainCatches(cb)
           THEN s_processed' = s_processed + 1 /\ s_pc' = s_pc
                /\ s_running' = s_running
           ELSE \* the exception leaves run(); main() ends the program
                s_processed' = s_processed /\ s_pc' = "exited"
                /\ s_running' = s_running
    /\ UNCHANGED <<s_max>>

\* drain returns: the limit is reached or get_nowait() raised queue.Empty.
DrainEnd ==
    /\ SchedFrame
    /\ s_pc = "drain"
    /\ ~DrainMayRun
    /\ s_pc' = "keys"
    /\ UNCHANGED <<q, s_enq, s_ran, s_max, s_processed, s_caught, s_running, s_next>>

\* LuetTUI.run: the rest of one iteration (getch, key handling, draw, sleep)
\* when the key is not a quit key.
MainLoopContinue ==
    /\ SchedFrame
    /\ s_pc = "keys"
    /\ s_pc' = "loop"
    /\ UNCHANGED <<q, s_enq, s_ran, s_max, s_processed, s_caught, s_running, s_next>>

\* LuetTUI.run: 'q' / 'Q' (or the Quit menu item) ends the loop.
MainLoopQuit ==
    /\ SchedFrame
    /\ s_pc = "keys"
    /\ s_running' = FALSE
    /\ s_pc' = "exited"
    /\ UNCHANGED <<q, s_enq, s_ran, s_max, s_processed, s_caught, s_next>>

SchedNext ==
    \/ WorkerSchedule
    \/ DrainBegin
    \/ DrainRun
    \/ DrainEnd
    \/ MainLoopContinue
    \/ MainLoopQuit

\* The main thread keeps iterating its loop unless it quits.
SchedFairness ==
    /\ WF_vars(DrainBegin)
    /\ WF_vars(DrainRun)
    /\ WF_vars(DrainEnd)
    /\ WF_vars(MainLoopContinue)

-----------------------------------------------------------------------------
(* Claims about the Scheduler, checked under SpecSched *)

Ids(seq) == [i \in 1..Len(seq) |-> seq[i].id]

WasEnqueued(i) == \E k \in 1..Len(s_enq) : s_enq[k].id = i
HasRun(i) == \E k \in 1..Len(s_ran) : s_ran[k].id = i

\* Safety part of C5: every callback handed to schedule is either still
\* queued or has run, never both and never twice, in the order of enqueueing;
\* callbacks run only inside drain; a drain call runs at most max_items
\* callbacks; every raised exception was caught by drain.
C5_Safety ==
    /\ Ids(s_ran) \o Ids(q) = Ids(s_enq)
    /\ \A k \in 1..Len(s_ran) : s_ran[k].where = "drain"
    /\ s_processed <= s_max
    /\ s_caught = Cardinality({k \in 1..Len(s_ran) : s_ran[k].kind = "raises"})

\* C5 as amended: every callback handed to Scheduler.schedule is executed at
\* most once, only inside drain called by the main loop and in the order of
\* enqueueing, a raising callback does not stop the ones after it, a drain
\* call runs at most max_items callbacks, and as long as the main loop has
\* not been quit every callback handed over is eventually executed.
C5_ExecutedOnceUnlessQuit ==
    /\ []C5_Safety
    /\ \A i \in 1..(MaxCallbacks + 1) :
        WasEnqueued(i) ~> (HasRun(i) \/ ~s_running)

\* C5 witness: a callback raised inside a drain that stopped at its limit
\* with a later callback still queued, which then ran in the next drain.
C5_Witness ==
    /\ Len(s_ran) >= 2
    /\ s_ran[1].kind = "raises"
    /\ s_max = 1
    /\ s_processed = 1
    /\ s_pc = "drain"
    /\ Ids(s_ran) = <<1, 2>>

\* C5 as stated: every callback handed to Scheduler.schedule is executed
\* exactly once, so when the main loop has ended none is left unexecuted.
C5_EveryCallbackExecuted ==
    s_pc = "exited" => Ids(s_ran) = Ids(s_enq)



\* A component that is not under check stays in one fixed initial state.
RunnerIdle == RunnerInit /\ ~r_root /\ r_elev = <<>>

OthersIdle(own) ==
    /\ "runner" \in own \/ RunnerIdle
    /\ "sched" \in own \/ SchedInit
    /\ "filter" \in own \/ FilterInit
    /\ "tui" \in own \/ TuiInit
    /\ "parse" \in own \/ ParseIdle
    /\ "check" \in own \/ CheckIdle
    /\ "repo" \in own \/ RepoInit
    /\ "upgrade" \in own \/ UpgradeIdle
    /\ "searchcore" \in own \/ SearchCoreInit
    /\ "ops" \in own \/ OpsInit

InitRunner == RunnerInit /\ OthersIdle({"runner"})

SpecRunner == InitRunner /\ [][RunnerNext]_vars

InitSched == SchedInit /\ OthersIdle({"sched"})

InitFilter == FilterInit /\ TuiInit /\ OthersIdle({"filter", "tui"})

SpecFilter == InitFilter /\ [][FilterNext]_vars

InitParse == ParseInit /\ OthersIdle({"parse"})

SpecParse == InitParse /\ [][ParseNext]_vars

InitCheck == CheckInit /\ OthersIdle({"check"})

SpecCheck == InitCheck /\ [][CheckNext]_vars

InitRepo == RepoInit /\ OthersIdle({"repo"})

SpecRepo == InitRepo /\ [][RepoNext]_vars

InitUpgrade == UpgradeInit /\ OthersIdle({"upgrade"})

SpecUpgrade == InitUpgrade /\ [][UpgradeNext]_vars

InitSearchCore == SearchCoreInit /\ OthersIdle({"searchcore"})

SpecSearchCore == InitSearchCore /\ [][SearchCoreNext]_vars

InitTuiOps == OpsInit /\ OthersIdle({"ops"})

SpecTuiOps == InitTuiOps /\ [][OpsNext]_vars

InitTui == TuiInit /\ OthersIdle({"tui"})

SpecTui == InitTui /\ [][TuiNext]_vars

SpecSched == InitSched /\ [][SchedNext]_vars /\ SchedFairness

=============================================================================
